---- MODULE Spec2Model ----
(***************************************************************************)
(* Model of the geometric pipeline of src/tdgm.py:                         *)
(*   compute_claimed_and_removed / algebraic_check   (polygon algebra)     *)
(*   augment_intersections / _seg_intersection       (topology augmenter)  *)
(*   unique_points_by_decimals / assign_global_vertex_numbers (registry)   *)
(*                                                                         *)
(* Geometry.  Coordinates are integers in a length unit of 1/unit mm.      *)
(* Drawings are written in 1/3 mm (unit = SnapStep), so that the vertex    *)
(* rounding step 10^-SNAP_DECIMALS = 1 mm is 3 units and TOL_AREA =        *)
(* 1e-6 m^2 is 9 square units.  There the intersection tolerance           *)
(* tol = 1e-7 is below the resolution of the lattice: a non-zero integer   *)
(* cross product is >= 1 unit^2 = 1.1e-7 > tol (IntersectTol = 0), a       *)
(* non-zero distance is >= 1 unit = 3.3e-4 > tol, and a segment parameter  *)
(* outside [0, 1] is outside by more than tol.  SpecFine draws drawings    *)
(* written in 1/450 mm (unit = FineUnit), whose cross and dot products     *)
(* come below tol (IntersectTol = 20250 square units).                     *)
(*                                                                         *)
(* Polygons are rectilinear with vertices on the lines GridX x GridY.  A   *)
(* shapely Polygon is the record [ext, cells]: ext is exterior.coords      *)
(* (closed ring), cells is the set of grid cells of its interior (holes    *)
(* excluded).  A general shapely geometry (result of an overlay) is the    *)
(* record [area, lower]: area is the set of cells of its polygonal part,   *)
(* lower says whether it also has a line or point component.               *)
(*                                                                         *)
(* Floats.  Lengths, areas and intersection points are exact here: the     *)
(* code compares them with tolerances far above the rounding error of a    *)
(* float.  The bucket centroid is the one computed value that is rounded   *)
(* to SNAP_DECIMALS without a tolerance, so its sum and quotient carry     *)
(* the rounding of binary floats (see FloatGrid).                          *)
(***************************************************************************)
EXTENDS Integers, Sequences, FiniteSets, TLC

VARIABLES
  pc,               \* position of the driver that applies the functions
  initials, bases, finals,                      \* arguments of compute_claimed_and_removed
  claimed_parts, removed_parts, initial_minus_d, base_u, final_u, \* its results
  ok, adiff,        \* result of algebraic_check
  items,            \* the List[PolyItem] handed to on_number
  prev_items,       \* the list as it was before the last augmentation
  id_to_point,      \* MainWindow.id_to_point
  text_h,           \* base_text_h of the last DXF export
  dist_texts,       \* the DIST-TEXT labels the last DXF export has placed
  table_tokens,     \* per item, the distance tokens of its table in the last DXF export
  unit,             \* the coordinates of the drawing are written in 1/unit mm
  dlg               \* the PolygonLayersDialog of on_assign_layers

vars == <<pc, initials, bases, finals, claimed_parts, removed_parts,
          initial_minus_d, base_u, final_u, ok, adiff, items, prev_items, id_to_point,
          text_h, dist_texts, table_tokens, unit, dlg>>

\* No PolygonLayersDialog has been constructed yet.
NoDialog ==
  [open |-> FALSE, layers_by_poly |-> <<>>, row |-> 0, checks |-> {}, events |-> 0, warnings |-> 0]

----------------------------------------------------------------------------
(* Bounds *)
MaxInitial == 2
MaxBase == 1
MaxFinal == 2
MaxItems == 2

(* Program constants in model units *)
SnapStep == 3
TOL_AREA == SnapStep * SnapStep

Metre == 1000 * SnapStep
SqMetre == Metre * Metre

GridX == <<-1, 0, 1, 2, 4, Metre, 2 * Metre, 2 * Metre + 10, 2 * Metre + 12, 10 * Metre, 12 * Metre>>
GridY == <<0, 1, 2, 4, Metre, 10 * Metre>>

None == <<>>
Some(g) == <<g>>

----------------------------------------------------------------------------
(* Sequences helpers *)
RECURSIVE SeqSum(_)
SeqSum(s) == IF s = <<>> THEN 0 ELSE Head(s) + SeqSum(Tail(s))

RECURSIVE Flatten(_)
Flatten(ss) == IF ss = <<>> THEN <<>> ELSE Head(ss) \o Flatten(Tail(ss))

SeqsUpTo(S, n) == UNION {[1..k -> S] : k \in 0..n}

(* the set S written out element by element *)
Enumerated(S) == {c : c \in S}

(* F applied to the value of v: TLC evaluates v once, where a LET definition
   or an operator argument is evaluated at each use *)
Bind(v, F(_)) == CHOOSE r \in {F(x) : x \in {v}} : TRUE

Abs(v) == IF v < 0 THEN -v ELSE v
Min2(a, b) == IF a <= b THEN a ELSE b
Max2(a, b) == IF a >= b THEN a ELSE b

----------------------------------------------------------------------------
(* Regions: sets of grid cells <<k,l>>, the cell between grid lines k,k+1 and l,l+1 *)
AllCells == (1..(Len(GridX) - 1)) \X (1..(Len(GridY) - 1))
AllVertices == (1..Len(GridX)) \X (1..Len(GridY))

CellArea(c) == (GridX[c[1] + 1] - GridX[c[1]]) * (GridY[c[2] + 1] - GridY[c[2]])

RECURSIVE RegionArea(_)
RegionArea(R) ==
  IF R = {} THEN 0
  ELSE LET c == CHOOSE x \in R : TRUE IN CellArea(c) + RegionArea(R \ {c})

(* cells enclosed by a closed rectilinear ring: parity of the vertical ring
   edges to the right of the cell that span its y-range *)
CellsOf(ring) ==
  Enumerated({c \in AllCells :
     Cardinality({i \in 1..(Len(ring) - 1) :
        /\ ring[i][1] = ring[i + 1][1]
        /\ ring[i][1] >= GridX[c[1] + 1]
        /\ Min2(ring[i][2], ring[i + 1][2]) <= GridY[c[2]]
        /\ Max2(ring[i][2], ring[i + 1][2]) >= GridY[c[2] + 1]}) % 2 = 1})

(* shapely Polygon(coords) for a simple ring *)
Polygon(coords) == [ext |-> coords, cells |-> CellsOf(coords)]

area(p) == RegionArea(p.cells)

----------------------------------------------------------------------------
(* Exterior ring of a 4-connected region: counter-clockwise from its
   lexicographically smallest vertex, corner vertices only *)
DirVec(d) == CASE d = "E" -> <<1, 0>> [] d = "N" -> <<0, 1>>
               [] d = "W" -> <<-1, 0>> [] d = "S" -> <<0, -1>>
TurnRight(d) == CASE d = "E" -> "S" [] d = "S" -> "W" [] d = "W" -> "N" [] d = "N" -> "E"
TurnLeft(d) == CASE d = "E" -> "N" [] d = "N" -> "W" [] d = "W" -> "S" [] d = "S" -> "E"
LeftCell(v, d) == CASE d = "E" -> <<v[1], v[2]>> [] d = "N" -> <<v[1] - 1, v[2]>>
                    [] d = "W" -> <<v[1] - 1, v[2] - 1>> [] d = "S" -> <<v[1], v[2] - 1>>
RightCell(v, d) == CASE d = "E" -> <<v[1], v[2] - 1>> [] d = "N" -> <<v[1], v[2]>>
                     [] d = "W" -> <<v[1] - 1, v[2]>> [] d = "S" -> <<v[1] - 1, v[2] - 1>>
HasEdge(R, v, d) == LeftCell(v, d) \in R /\ RightCell(v, d) \notin R
StepTo(v, d) == <<v[1] + DirVec(d)[1], v[2] + DirVec(d)[2]>>
NextDir(R, v, d) ==
  IF HasEdge(R, v, TurnRight(d)) THEN TurnRight(d)
  ELSE IF HasEdge(R, v, d) THEN d ELSE TurnLeft(d)

MinCell(R) == CHOOSE c \in R : \A e \in R : c[1] < e[1] \/ (c[1] = e[1] /\ c[2] <= e[2])

RECURSIVE Walk(_, _, _, _, _)
Walk(R, v0, v, d, acc) ==
  LET nd == NextDir(R, v, d)
      acc2 == IF nd # d THEN Append(acc, v) ELSE acc
      nxt == StepTo(v, nd)
  IN IF nxt = v0 THEN acc2 ELSE Walk(R, v0, nxt, nd, acc2)

ExteriorRing(R) ==
  LET v0 == MinCell(R)
      idx == Walk(R, v0, StepTo(v0, "E"), "E", <<v0>>)
      pts == [i \in 1..Len(idx) |-> <<GridX[idx[i][1]], GridY[idx[i][2]]>>]
  IN Append(pts, pts[1])

(* 4-connected component of cell c in R *)
Neighbours(c) == {<<c[1] + 1, c[2]>>, <<c[1] - 1, c[2]>>, <<c[1], c[2] + 1>>, <<c[1], c[2] - 1>>}

RECURSIVE Grow(_, _)
Grow(R, S) ==
  IF \E c \in R : c \notin S /\ Neighbours(c) \cap S # {}
  THEN Grow(R, Enumerated({c \in R : c \in S \/ Neighbours(c) \cap S # {}}))
  ELSE S

Component(R, c) == Grow(R, {c})

RECURSIVE PolygonsOf(_)
PolygonsOf(R) ==
  IF R = {} THEN <<>>
  ELSE LET comp == Component(R, MinCell(R))
       IN <<[ext |-> ExteriorRing(comp), cells |-> comp]>> \o PolygonsOf(Enumerated(R \ comp))

----------------------------------------------------------------------------
(* shapely overlay operations on geometries [area, lower] *)
Geom(p) == [area |-> p.cells, lower |-> FALSE]
EmptyGeom == [area |-> {}, lower |-> FALSE]

is_empty(g) == g.area = {} /\ ~g.lower

make_valid(g) == g

RECURSIVE UnionCells(_)
UnionCells(ps) == IF ps = <<>> THEN {} ELSE Head(ps).cells \cup UnionCells(Tail(ps))

unary_union(ps) == [area |-> UnionCells(ps), lower |-> FALSE]

AdjCells(v) == {<<v[1], v[2]>>, <<v[1] - 1, v[2]>>, <<v[1], v[2] - 1>>, <<v[1] - 1, v[2] - 1>>} \cap AllCells

(* the two closed regions meet in a grid edge or a grid vertex that is not
   on the closure of their common area *)
TouchOutsideCommonArea(A, B) ==
  \/ \E v \in AllVertices :
        /\ AdjCells(v) \cap A # {}
        /\ AdjCells(v) \cap B # {}
        /\ AdjCells(v) \cap A \cap B = {}
  \/ \E c \in AllCells : \E e \in (Neighbours(c) \cap AllCells) :
        /\ c \in A /\ c \notin B
        /\ e \in B /\ e \notin A

intersection(g, h) ==
  [area |-> Enumerated(g.area \cap h.area), lower |-> TouchOutsideCommonArea(g.area, h.area)]
difference(g, h) == [area |-> Enumerated(g.area \ h.area), lower |-> FALSE]
union(g, h) == [area |-> Enumerated(g.area \cup h.area), lower |-> FALSE]
symmetric_difference(g, h) ==
  [area |-> Enumerated((g.area \ h.area) \cup (h.area \ g.area)), lower |-> FALSE]

(* multipoly_iter: the Polygon members of a Polygon or MultiPolygon; nothing
   for an empty geometry and nothing for any other geometry type *)
multipoly_iter(g) ==
  IF g.area = {} \/ g.lower THEN <<>> ELSE PolygonsOf(g.area)

----------------------------------------------------------------------------
(* compute_claimed_and_removed *)
PositiveParts(g) ==
  LET Positive(p) == area(p) > 0
  IN SelectSeq(multipoly_iter(make_valid(g)), Positive)

(* mutant: takes the part of the Initial polygon outside the Final union *)
ClaimedOfInitial_Difference(i, g, final_un) ==
  IF final_un = None THEN <<>>
  ELSE LET inter == difference(make_valid(Geom(g)), make_valid(final_un[1]))
           parts == IF is_empty(inter) THEN <<>> ELSE PositiveParts(inter)
       IN [k \in 1..Len(parts) |-> <<i, parts[k]>>]

ClaimedOfInitial(i, g, final_un) ==
  IF final_un = None THEN <<>>
  ELSE LET inter == intersection(make_valid(Geom(g)), make_valid(final_un[1]))
           parts == IF is_empty(inter) THEN <<>> ELSE PositiveParts(inter)
       IN [k \in 1..Len(parts) |-> <<i, parts[k]>>]

(* mutant: subtracts the Base union from the Final union *)
RemovedParts_Swapped(base_un, final_un) ==
  IF base_un # None /\ final_un # None
  THEN LET diff == difference(make_valid(final_un[1]), make_valid(base_un[1]))
       IN IF is_empty(diff) THEN <<>> ELSE PositiveParts(diff)
  ELSE <<>>

(* RemovedParts that takes the whole Base union when there is no Final *)
RemovedParts_AbsentFinalKeepsBase(base_un, final_un) ==
  IF base_un # None /\ final_un # None
  THEN LET diff == difference(make_valid(base_un[1]), make_valid(final_un[1]))
       IN IF is_empty(diff) THEN <<>> ELSE PositiveParts(diff)
  ELSE IF base_un # None THEN PositiveParts(base_un[1])
  ELSE <<>>

RemovedParts(base_un, final_un) ==
  IF base_un # None /\ final_un # None
  THEN LET diff == difference(make_valid(base_un[1]), make_valid(final_un[1]))
       IN IF is_empty(diff) THEN <<>> ELSE PositiveParts(diff)
  ELSE <<>>

claimed_by_initial(claimed, i) ==
  LET Own(e) == e[1] = i
      own == SelectSeq(claimed, Own)
  IN [k \in 1..Len(own) |-> own[k][2]]

(* mutant: never subtracts the claimed parts *)
RemainderOfInitial_NoSubtract(i, g, claimed) ==
  IF area(g) > 0 THEN <<<<i, g>>>> ELSE <<>>

(* mutant: tags the pass-through polygon with the 0-based index *)
RemainderOfInitial_ZeroBased(i, g, claimed) ==
  LET mine == claimed_by_initial(claimed, i)
  IN IF mine = <<>>
     THEN IF area(g) > 0 THEN <<<<i - 1, g>>>> ELSE <<>>
     ELSE LET diff == difference(make_valid(Geom(g)), make_valid(unary_union(mine)))
              parts == IF is_empty(diff) THEN <<>> ELSE PositiveParts(diff)
          IN [k \in 1..Len(parts) |-> <<i, parts[k]>>]

RemainderOfInitial(i, g, claimed) ==
  LET mine == claimed_by_initial(claimed, i)
  IN IF mine = <<>>
     THEN IF area(g) > 0 THEN <<<<i, g>>>> ELSE <<>>
     ELSE LET diff == difference(make_valid(Geom(g)), make_valid(unary_union(mine)))
              parts == IF is_empty(diff) THEN <<>> ELSE PositiveParts(diff)
          IN [k \in 1..Len(parts) |-> <<i, parts[k]>>]

(* compute_claimed_and_removed with a claimed list that outlives the call *)
compute_claimed_and_removed_KeepsClaimed(ini, bas, fin) ==
  LET bu == IF bas # <<>> THEN Some(unary_union(bas)) ELSE None
      fu == IF fin # <<>> THEN Some(unary_union(fin)) ELSE None
      claimed == claimed_parts \o Flatten([i \in 1..Len(ini) |-> ClaimedOfInitial(i, ini[i], fu)])
  IN [claimed_parts |-> claimed,
      removed_parts |-> RemovedParts(bu, fu),
      initial_minus_d |-> Flatten([i \in 1..Len(ini) |-> RemainderOfInitial(i, ini[i], claimed)]),
      base_u |-> bu,
      final_u |-> fu]

compute_claimed_and_removed(ini, bas, fin) ==
  LET bu == IF bas # <<>> THEN Some(unary_union(bas)) ELSE None
      fu == IF fin # <<>> THEN Some(unary_union(fin)) ELSE None
      claimed == Flatten([i \in 1..Len(ini) |-> ClaimedOfInitial(i, ini[i], fu)])
  IN [claimed_parts |-> claimed,
      removed_parts |-> RemovedParts(bu, fu),
      initial_minus_d |-> Flatten([i \in 1..Len(ini) |-> RemainderOfInitial(i, ini[i], claimed)]),
      base_u |-> bu,
      final_u |-> fu]

(* mutant: does not subtract the removed parts from the Base union *)
algebraic_check_KeepsRemoved(base_un, final_un, removed, claimed) ==
  IF final_un = None THEN <<FALSE, 0>>
  ELSE
    LET left1 == IF base_un # None THEN Some(make_valid(base_un[1])) ELSE None
        union_claimed == unary_union([k \in 1..Len(claimed) |-> claimed[k][2]])
        left == IF claimed # <<>>
                THEN IF left1 = None THEN Some(union_claimed)
                     ELSE Some(union(make_valid(left1[1]), make_valid(union_claimed)))
                ELSE left1
    IN IF left = None THEN <<FALSE, RegionArea(final_un[1].area)>>
       ELSE LET sym == symmetric_difference(make_valid(left[1]), make_valid(final_un[1]))
            IN <<RegionArea(sym.area) <= TOL_AREA, RegionArea(sym.area)>>

(* algebraic_check that takes an absent Final union for an empty one *)
algebraic_check_AbsentFinalEmpty(base_un, final_un, removed, claimed) ==
  LET left1 == IF base_un # None
               THEN IF removed # <<>>
                    THEN difference(make_valid(base_un[1]), make_valid(unary_union(removed)))
                    ELSE make_valid(base_un[1])
               ELSE EmptyGeom
      left == union(left1, unary_union([k \in 1..Len(claimed) |-> claimed[k][2]]))
      sym == symmetric_difference(left, IF final_un = None THEN EmptyGeom ELSE final_un[1])
  IN <<RegionArea(sym.area) <= TOL_AREA, RegionArea(sym.area)>>

(* algebraic_check in which the claimed parts replace the Base side *)
algebraic_check_ClaimedOnly(base_un, final_un, removed, claimed) ==
  IF final_un = None THEN <<FALSE, 0>>
  ELSE
    LET left == IF claimed # <<>>
                THEN Some(unary_union([k \in 1..Len(claimed) |-> claimed[k][2]]))
                ELSE IF base_un # None THEN Some(make_valid(base_un[1])) ELSE None
    IN IF left = None THEN <<FALSE, RegionArea(final_un[1].area)>>
       ELSE LET sym == symmetric_difference(make_valid(left[1]), make_valid(final_un[1]))
            IN <<RegionArea(sym.area) <= TOL_AREA, RegionArea(sym.area)>>

(* algebraic_check that compares the residual with the tolerance also when
   there is nothing to reconstruct from *)
algebraic_check_EmptyLeftCompared(base_un, final_un, removed, claimed) ==
  IF final_un = None THEN <<FALSE, 0>>
  ELSE
    LET left1 == IF base_un # None
                 THEN IF removed # <<>>
                      THEN difference(make_valid(base_un[1]), make_valid(unary_union(removed)))
                      ELSE make_valid(base_un[1])
                 ELSE EmptyGeom
        left == union(left1, unary_union([k \in 1..Len(claimed) |-> claimed[k][2]]))
        sym == symmetric_difference(left, make_valid(final_un[1]))
    IN <<RegionArea(sym.area) <= TOL_AREA, RegionArea(sym.area)>>

(* algebraic_check: <<pass, residual>> *)
algebraic_check(base_un, final_un, removed, claimed) ==
  IF final_un = None THEN <<FALSE, 0>>
  ELSE
    LET left1 == IF base_un # None
                 THEN IF removed # <<>>
                      THEN Some(difference(make_valid(base_un[1]), make_valid(unary_union(removed))))
                      ELSE Some(make_valid(base_un[1]))
                 ELSE None
        union_claimed == unary_union([k \in 1..Len(claimed) |-> claimed[k][2]])
        left == IF claimed # <<>>
                THEN IF left1 = None THEN Some(union_claimed)
                     ELSE Some(union(make_valid(left1[1]), make_valid(union_claimed)))
                ELSE left1
    IN IF left = None THEN <<FALSE, RegionArea(final_un[1].area)>>
       ELSE LET sym == symmetric_difference(make_valid(left[1]), make_valid(final_un[1]))
            IN <<RegionArea(sym.area) <= TOL_AREA, RegionArea(sym.area)>>

----------------------------------------------------------------------------
(* PolyItem (dataclass, lines 519-539); ring, point_ids and layers default to
   [], from_kaek, to_kaek and characteristic to "" *)
PolyItem(role, name, polygon) ==
  [role |-> role, name |-> name, polygon |-> polygon, ring |-> <<>>, point_ids |-> <<>>,
   from_kaek |-> "", to_kaek |-> "", characteristic |-> "", layers |-> <<>>]

(* a geometry that is a shapely Polygon (has an exterior); ring_coords and
   .exterior raise on any other geometry *)
IsPolygon(g) == "ext" \in DOMAIN g

ring_coords(poly) == poly.ext

(* a MultiPolygon or GeometryCollection: what make_valid and unary_union
   return for the linework coords when it is not a simple ring *)
NotPolygon(coords) == [geoms |-> coords]

_orient(ax, ay, bx, by, cx, cy) == (bx - ax) * (cy - ay) - (by - ay) * (cx - ax)

(* p lies on the closed segment (a, b), exactly *)
Between(a, b, p) ==
  /\ _orient(a[1], a[2], b[1], b[2], p[1], p[2]) = 0
  /\ Min2(a[1], b[1]) <= p[1] /\ p[1] <= Max2(a[1], b[1])
  /\ Min2(a[2], b[2]) <= p[2] /\ p[2] <= Max2(a[2], b[2])

(* the closed segments (a, b) and (c, d) have a point in common *)
Meet(a, b, c, d) ==
  LET o1 == _orient(a[1], a[2], b[1], b[2], c[1], c[2])
      o2 == _orient(a[1], a[2], b[1], b[2], d[1], d[2])
      o3 == _orient(c[1], c[2], d[1], d[2], a[1], a[2])
      o4 == _orient(c[1], c[2], d[1], d[2], b[1], b[2])
      Opposite(x, y) == (x > 0 /\ y < 0) \/ (x < 0 /\ y > 0)
  IN \/ Opposite(o1, o2) /\ Opposite(o3, o4)
     \/ Between(a, b, c) \/ Between(a, b, d)
     \/ Between(c, d, a) \/ Between(c, d, b)

(* the ring without the points that repeat their predecessor *)
RECURSIVE WithoutRepeats(_)
WithoutRepeats(ring) ==
  IF Len(ring) < 2 THEN ring
  ELSE IF ring[1] = ring[2] THEN WithoutRepeats(Tail(ring))
  ELSE <<ring[1]>> \o WithoutRepeats(Tail(ring))

(* is_valid of Polygon(coords) for a closed ring: repeated points aside, two
   edges meet only where consecutive edges share their vertex *)
IsSimpleRing(coords) ==
  Bind(WithoutRepeats(coords), LAMBDA ring :
    LET m == Len(ring) - 1
    IN /\ m >= 3
       /\ \A i \in 1..m : \A j \in (i + 1)..m :
            IF j = i + 1
            THEN ~Between(ring[i], ring[i + 1], ring[j + 1]) /\ ~Between(ring[j], ring[j + 1], ring[i])
            ELSE IF i = 1 /\ j = m
            THEN ~Between(ring[j], ring[j + 1], ring[i + 1]) /\ ~Between(ring[i], ring[i + 1], ring[j])
            ELSE ~Meet(ring[i], ring[i + 1], ring[j], ring[j + 1]))

(* coords_to_polygon, lines 459-489: None below 4 coordinates; else the ring
   is closed with its first point and Polygon(coords) is returned when it is
   valid; an invalid one goes through make_valid and unary_union and comes
   back as the geometry they make of its linework *)
coords_to_polygon(coords) ==
  IF coords = <<>> \/ Len(coords) < 4 THEN None
  ELSE Bind(IF coords[1] # coords[Len(coords)] THEN Append(coords, coords[1]) ELSE coords,
            LAMBDA closed : IF IsSimpleRing(closed) THEN Some(Polygon(closed))
                            ELSE Some(NotPolygon(closed)))

----------------------------------------------------------------------------
(* Segment intersection *)
(* tol = 1e-7 (line 2787) where the code compares a cross product or a dot
   product of coordinates in metres with it: 0.1 mm^2 in square units,
   rounded down.  Where the code compares a distance with tol (1e-4 mm) the
   comparison is exact, as two distinct points are at least a unit apart *)
IntersectTol == (unit * unit) \div 10

_on_segment(ax, ay, bx, by, px, py) ==
  IF Abs(_orient(ax, ay, bx, by, px, py)) > IntersectTol THEN FALSE
  ELSE LET dot == (px - ax) * (bx - ax) + (py - ay) * (by - ay)
           seg2 == (bx - ax) * (bx - ax) + (by - ay) * (by - ay)
       IN IF dot < -IntersectTol THEN FALSE
          ELSE IF dot - seg2 > IntersectTol THEN FALSE
          ELSE TRUE

RECURSIVE GCD(_, _)
GCD(m, n) == IF n = 0 THEN m ELSE GCD(n, m % n)

(* (n / d) * w for a quotient n/d in [0, 1] whose product with w is a lattice
   coordinate offset; the fraction is reduced first *)
Scaled(n, d, w) ==
  LET g == GCD(Abs(n), Abs(d))
      n1 == IF d > 0 THEN n \div g ELSE (-n) \div g
      d1 == Abs(d) \div g
  IN (n1 * w) \div d1

(* -tol <= n/d <= 1 + tol for the segment parameter n/d and tol = 1e-7 *)
InUnitInterval(n, d) ==
  LET slack == Abs(d) \div 10000000
  IN IF d > 0 THEN -slack <= n /\ n <= d + slack ELSE d - slack <= n /\ n <= slack

LexLess(p, q) == p[1] < q[1] \/ (p[1] = q[1] /\ p[2] < q[2])

RECURSIVE Dedup(_, _)
Dedup(pts, uniq) ==
  IF pts = <<>> THEN uniq
  ELSE IF \E k \in 1..Len(uniq) : uniq[k] = Head(pts)
       THEN Dedup(Tail(pts), uniq)
       ELSE Dedup(Tail(pts), Append(uniq, Head(pts)))

(* <<"POINT", p>>, <<"OVERLAP", p1, p2>> or None *)
_seg_intersection(a, b, c, d) ==
  LET ax == a[1]  ay == a[2]  bx == b[1]  by == b[2]
      cx == c[1]  cy == c[2]  dx == d[1]  dy == d[2]
      den == (ax - bx) * (cy - dy) - (ay - by) * (cx - dx)
  IN IF Abs(den) > IntersectTol
     THEN LET tn == (ax - cx) * (cy - dy) - (ay - cy) * (cx - dx)
              un == (ax - cx) * (ay - by) - (ay - cy) * (ax - bx)
          IN IF InUnitInterval(tn, den) /\ InUnitInterval(un, den)
             THEN <<"POINT", <<ax + Scaled(tn, den, bx - ax), ay + Scaled(tn, den, by - ay)>>>>
             ELSE None
     ELSE IF /\ Abs(_orient(ax, ay, bx, by, cx, cy)) <= IntersectTol
             /\ Abs(_orient(ax, ay, bx, by, dx, dy)) <= IntersectTol
          THEN LET OnBoth(q) == /\ _on_segment(ax, ay, bx, by, q[1], q[2])
                                /\ _on_segment(cx, cy, dx, dy, q[1], q[2])
                   pts == SelectSeq(<<a, b, c, d>>, OnBoth)
                   uniq == Dedup(pts, <<>>)
                   lo == CHOOSE k \in 1..Len(uniq) : \A l \in 1..Len(uniq) : ~LexLess(uniq[l], uniq[k])
                   hi == CHOOSE k \in 1..Len(uniq) : \A l \in 1..Len(uniq) : ~LexLess(uniq[k], uniq[l])
               IN IF Len(uniq) >= 2 THEN <<"OVERLAP", uniq[lo], uniq[hi]>>
                  ELSE IF Len(uniq) = 1 THEN <<"POINT", uniq[1]>>
                  ELSE None
          ELSE None

----------------------------------------------------------------------------
(* augment_intersections *)
(* lines 821-835: the closed ring of every item *)
RingsOf(its) ==
  [i \in 1..Len(its) |->
     LET r == ring_coords(its[i].polygon)
     IN IF r # <<>> /\ r[1] # r[Len(r)] THEN Append(r, r[1]) ELSE r]

(* edge e (1-based) of a closed ring with m = Len(ring) - 1 edges *)
EdgeStart(ring, e) == ring[e]
EdgeEnd(ring, e) == ring[(e % (Len(ring) - 1)) + 1]

ResultPoints(res) ==
  IF res = None THEN <<>>
  ELSE IF res[1] = "POINT" THEN <<res[2]>>
  ELSE <<res[2], res[3]>>

(* InsertsOf that records the points of a pair for its first item only *)
InsertsOf_FirstItemOnly(rings, k, e) ==
  Dedup(Flatten([j \in 1..Len(rings) |->
          IF j <= k THEN <<>>
          ELSE Flatten([f \in 1..(Len(rings[j]) - 1) |->
                 ResultPoints(
                   _seg_intersection(EdgeStart(rings[k], e), EdgeEnd(rings[k], e),
                                     EdgeStart(rings[j], f), EdgeEnd(rings[j], f)))])]),
        <<>>)

(* InsertsOf whose add_ins records a point again that is pending already *)
InsertsOf_NoMerge(rings, k, e) ==
  Flatten([j \in 1..Len(rings) |->
    IF j = k THEN <<>>
    ELSE Flatten([f \in 1..(Len(rings[j]) - 1) |->
           ResultPoints(
             IF k < j
             THEN _seg_intersection(EdgeStart(rings[k], e), EdgeEnd(rings[k], e),
                                    EdgeStart(rings[j], f), EdgeEnd(rings[j], f))
             ELSE _seg_intersection(EdgeStart(rings[j], f), EdgeEnd(rings[j], f),
                                    EdgeStart(rings[k], e), EdgeEnd(rings[k], e)))])])

(* lines 839-889: the points pending on edge e of item k, in the order of the
   add_ins calls.  The pair (i, j) with i < j is classified once, as edge of i
   against edge of j, and each point is recorded for both items; the loops
   reach the edges of the other items in the order of item and edge; add_ins
   drops a point already pending on the edge *)
InsertsOf(rings, k, e) ==
  Dedup(Flatten([j \in 1..Len(rings) |->
          IF j = k THEN <<>>
          ELSE Flatten([f \in 1..(Len(rings[j]) - 1) |->
                 ResultPoints(
                   IF k < j
                   THEN _seg_intersection(EdgeStart(rings[k], e), EdgeEnd(rings[k], e),
                                          EdgeStart(rings[j], f), EdgeEnd(rings[j], f))
                   ELSE _seg_intersection(EdgeStart(rings[j], f), EdgeEnd(rings[j], f),
                                          EdgeStart(rings[k], e), EdgeEnd(rings[k], e)))])]),
        <<>>)

(* sorted(extra, key = projection parameter along (a, b)); the parameter is
   the dot product over a positive constant, and sorted keeps the order of
   points with equal keys *)
Projection(q, a, b) == (q[1] - a[1]) * (b[1] - a[1]) + (q[2] - a[2]) * (b[2] - a[2])

RECURSIVE SortedByProjection(_, _, _)
SortedByProjection(extra, a, b) ==
  Bind(extra, LAMBDA T :
    IF T = <<>> THEN <<>>
    ELSE Bind(CHOOSE i \in 1..Len(T) : \A l \in 1..Len(T) :
                \/ Projection(T[i], a, b) < Projection(T[l], a, b)
                \/ (Projection(T[i], a, b) = Projection(T[l], a, b) /\ i <= l),
              LAMBDA i : <<T[i]>> \o SortedByProjection(SubSeq(T, 1, i - 1) \o SubSeq(T, i + 1, Len(T)), a, b)))

(* AppendInsertions that keeps a point at the start of the edge *)
RECURSIVE AppendInsertions_KeepsEdgeStart(_, _, _, _)
AppendInsertions_KeepsEdgeStart(new_ring, extra_sorted, a, b) ==
  Bind(<<new_ring, extra_sorted>>, LAMBDA v :
    IF v[2] = <<>> THEN v[1]
    ELSE LET q == Head(v[2])
         IN IF q = b
            THEN AppendInsertions_KeepsEdgeStart(v[1], Tail(v[2]), a, b)
            ELSE AppendInsertions_KeepsEdgeStart(Append(v[1], q), Tail(v[2]), a, b))

(* AppendInsertions that keeps a point at the end of the edge *)
RECURSIVE AppendInsertions_KeepsEdgeEnd(_, _, _, _)
AppendInsertions_KeepsEdgeEnd(new_ring, extra_sorted, a, b) ==
  Bind(<<new_ring, extra_sorted>>, LAMBDA v :
    IF v[2] = <<>> THEN v[1]
    ELSE LET q == Head(v[2])
         IN IF q = a \/ (v[1] # <<>> /\ v[1][Len(v[1])] = q)
            THEN AppendInsertions_KeepsEdgeEnd(v[1], Tail(v[2]), a, b)
            ELSE AppendInsertions_KeepsEdgeEnd(Append(v[1], q), Tail(v[2]), a, b))

(* lines 915-931: the sorted insertions that are kept after new_ring so far *)
RECURSIVE AppendInsertions(_, _, _, _)
AppendInsertions(new_ring, extra_sorted, a, b) ==
  Bind(<<new_ring, extra_sorted>>, LAMBDA v :
    IF v[2] = <<>> THEN v[1]
    ELSE LET q == Head(v[2])
         IN IF q = a \/ q = b \/ (v[1] # <<>> /\ v[1][Len(v[1])] = q)
            THEN AppendInsertions(v[1], Tail(v[2]), a, b)
            ELSE AppendInsertions(Append(v[1], q), Tail(v[2]), a, b))

(* RebuildFrom that starts an edge with its insertions when it has any *)
RECURSIVE RebuildFrom_DropsEdgeStart(_, _, _, _)
RebuildFrom_DropsEdgeStart(rings, k, e, new_ring) ==
  Bind(new_ring, LAMBDA built :
    IF e > Len(rings[k]) - 1 THEN built
    ELSE LET a == EdgeStart(rings[k], e)
             b == EdgeEnd(rings[k], e)
         IN Bind(AppendInsertions(<<>>, SortedByProjection(InsertsOf(rings, k, e), a, b), a, b),
                 LAMBDA kept : RebuildFrom_DropsEdgeStart(rings, k, e + 1,
                                 built \o (IF kept = <<>> THEN <<a>> ELSE kept))))

(* lines 893-931: walk the ring edge by edge *)
RECURSIVE RebuildFrom(_, _, _, _)
RebuildFrom(rings, k, e, new_ring) ==
  Bind(new_ring, LAMBDA built :
    IF e > Len(rings[k]) - 1 THEN built
    ELSE LET a == EdgeStart(rings[k], e)
             b == EdgeEnd(rings[k], e)
         IN RebuildFrom(rings, k, e + 1,
              AppendInsertions(Append(built, a),
                               SortedByProjection(InsertsOf(rings, k, e), a, b), a, b)))

(* poly2.is_empty of the geometry that coords_to_polygon returned *)
RingIsEmpty(g) == IsPolygon(g) /\ g.cells = {}

(* lines 933-949: close the ring and replace the item's polygon and ring.
   Line 945 assigns it.polygon and then reads its exterior, which raises when
   the rebuilt geometry is not a Polygon: the item is left with the new
   polygon and its old ring *)
AugmentItem(it, rings, k) ==
  Bind(RebuildFrom(rings, k, 1, <<>>), LAMBDA built :
  Bind(IF built = <<>> THEN rings[k] ELSE built, LAMBDA filled :
  Bind(IF filled # <<>> /\ filled[1] # filled[Len(filled)]
       THEN Append(filled, filled[1]) ELSE filled, LAMBDA new_ring :
  Bind(coords_to_polygon(new_ring), LAMBDA poly2 :
    IF poly2 # None /\ ~RingIsEmpty(poly2[1])
    THEN IF IsPolygon(poly2[1])
         THEN [it EXCEPT !.polygon = make_valid(poly2[1]), !.ring = ring_coords(poly2[1])]
         ELSE [it EXCEPT !.polygon = make_valid(poly2[1])]
    ELSE [it EXCEPT !.ring = new_ring]))))

(* an item whose polygon has no exterior: the augmentation stopped at it *)
Raised(its) == \E k \in 1..Len(its) : ~IsPolygon(its[k].polygon)

(* the 1-based position of the first such item, 0 without one *)
RaisedAt(its) ==
  IF Raised(its) THEN CHOOSE k \in 1..Len(its) :
                        /\ ~IsPolygon(its[k].polygon)
                        /\ \A l \in 1..(k - 1) : IsPolygon(its[l].polygon)
  ELSE 0

(* the item list after augment_intersections(items, tol = 1e-7), which works
   in place: an exception at line 827 (ring_coords of an item that is not a
   Polygon) leaves the list as it was; one at line 945 leaves the items up to
   the failing one rewritten and the later ones untouched *)
augment_intersections(its) ==
  IF its = <<>> \/ Raised(its) THEN its
  ELSE Bind(RingsOf(its), LAMBDA rings :
       Bind([k \in 1..Len(its) |-> AugmentItem(its[k], rings, k)], LAMBDA rebuilt :
       Bind(RaisedAt(rebuilt), LAMBDA stop :
         [k \in 1..Len(its) |-> IF stop = 0 \/ k <= stop THEN rebuilt[k] ELSE its[k]])))

----------------------------------------------------------------------------
(* Vertex registry *)
(* round-half-even of the rational n/d, d > 0 *)
RoundHalfEven(n, d) ==
  LET q == n \div d
      r == n % d
  IN IF 2 * r < d THEN q
     ELSE IF 2 * r > d THEN q + 1
     ELSE IF q % 2 = 0 THEN q ELSE q + 1

(* round(x, decimals) of the coordinate n/d, in length units *)
RoundTo(n, d) == unit * RoundHalfEven(n, d * unit)

(* line 959: the bucket key of a raw point *)
BucketKey(q) == <<RoundTo(q[1], 1), RoundTo(q[2], 1)>>

(* first-seen order of the bucket keys (dict insertion order): the keys of
   seen, then the key of every point that no earlier point and no member of
   seen has, in the order of the points *)
KeysInOrder(points, seen) ==
  Bind([i \in 1..Len(points) |-> BucketKey(points[i])], LAMBDA keys :
  Bind({i \in 1..Len(keys) :
          /\ \A j \in 1..(i - 1) : keys[j] # keys[i]
          /\ \A j \in 1..Len(seen) : seen[j] # keys[i]}, LAMBDA firsts :
    seen \o [n \in 1..Cardinality(firsts) |->
               keys[CHOOSE i \in firsts : Cardinality({j \in firsts : j <= i}) = n]]))

(* Python floats are binary: a sum or a quotient is the exact result rounded
   to the nearest float, ties to the even significand, and the spacing of the
   floats doubles at every power of two.  The lattice carries that rounding
   with a short significand: below FloatGrid the floats are finer than the
   lattice, from FloatGrid to 2 * FloatGrid they are the lattice points, and
   above they thin out by powers of two.  A lattice point next to a bucket
   boundary is then less than one float spacing away from it, as a coordinate
   written with a final 5 in the fourth decimal is in the program. *)
FloatGrid == 2 ^ 12

RECURSIVE SpacingFrom(_, _)
SpacingFrom(v, s) == IF v < 2 * FloatGrid * s THEN s ELSE SpacingFrom(v, 2 * s)

(* a + b in floats, for lattice points a and b *)
FloatAdd(a, b) ==
  Bind(a + b, LAMBDA exact :
    LET q == SpacingFrom(Abs(exact), 1)
    IN q * RoundHalfEven(exact, q))

(* sum(...) of line 973: from 0, left to right *)
RECURSIVE FloatSum(_, _)
FloatSum(xs, acc) ==
  Bind(<<xs, acc>>, LAMBDA v :
    IF v[1] = <<>> THEN v[2] ELSE FloatSum(Tail(v[1]), FloatAdd(v[2], Head(v[1]))))

RECURSIVE Refinement(_, _, _)
Refinement(s, n, p) == IF s = 0 \/ Abs(s) * p >= FloatGrid * n THEN p ELSE Refinement(s, n, 2 * p)

(* s / n in floats, as the fraction <<numerator, denominator>> *)
FloatDiv(s, n) ==
  IF Abs(s) >= FloatGrid * n
  THEN LET q == SpacingFrom(Abs(s) \div n, 1) IN <<q * RoundHalfEven(s, n * q), 1>>
  ELSE LET p == Refinement(s, n, 1) IN <<RoundHalfEven(s * p, n), p>>

(* lines 973-975 *)
Centroid(xs) == Bind(FloatSum(xs, 0), LAMBDA s : FloatDiv(s, Len(xs)))

(* lines 965-977: the key itself for a single point, else the rounded centroid *)
CanonicalOf(k, points) ==
  LET InBucket(q) == BucketKey(q) = k
  IN Bind(SelectSeq(points, InBucket), LAMBDA pts :
       IF Len(pts) = 1 THEN k
       ELSE Bind(<<Centroid([i \in 1..Len(pts) |-> pts[i][1]]),
                   Centroid([i \in 1..Len(pts) |-> pts[i][2]])>>,
                 LAMBDA s : <<RoundTo(s[1][1], s[1][2]), RoundTo(s[2][1], s[2][2])>>))

unique_points_by_decimals(points) ==
  Bind(KeysInOrder(points, <<>>), LAMBDA keys :
    [i \in 1..Len(keys) |-> CanonicalOf(keys[i], points)])

(* VertexKey without rounding *)
VertexKey_Raw(q) == q

(* line 1013: the key a ring vertex is looked up with *)
VertexKey(q) == <<RoundTo(q[1], 1), RoundTo(q[2], 1)>>

(* id_map is a function from keys to ids; a later assignment to a key replaces an earlier one *)
MapPut(id_map, k, v) == [x \in (DOMAIN id_map) \cup {k} |-> IF x = k THEN v ELSE id_map[x]]

(* lines 997-1005: ids 1.. in the order of uniq_points *)
RECURSIVE RegisterUnique(_, _, _)
RegisterUnique(uniq, i, reg) ==
  Bind(reg, LAMBDA r :
    IF i > Len(uniq) THEN r
    ELSE LET key == <<RoundTo(uniq[i][1], 1), RoundTo(uniq[i][2], 1)>>
         IN RegisterUnique(uniq, i + 1,
              [id_map |-> MapPut(r.id_map, key, r.gid),
               id_to_point |-> Append(r.id_to_point, key),
               gid |-> r.gid + 1]))

(* AssignRing that numbers the closing point too *)
RECURSIVE AssignRing_WithClosing(_, _, _, _)
AssignRing_WithClosing(ring, i, ids, reg) ==
  Bind(reg, LAMBDA r :
    IF i > Len(ring) THEN [point_ids |-> ids, reg |-> r]
    ELSE Bind(<<VertexKey(ring[i]), ids>>, LAMBDA v :
           IF v[1] \in DOMAIN r.id_map
           THEN AssignRing_WithClosing(ring, i + 1, Append(v[2], r.id_map[v[1]]), r)
           ELSE AssignRing_WithClosing(ring, i + 1, Append(v[2], r.gid),
                  [id_map |-> MapPut(r.id_map, v[1], r.gid),
                   id_to_point |-> Append(r.id_to_point, v[1]),
                   gid |-> r.gid + 1])))

(* lines 1011-1021: the ids of one ring, vertex by vertex; a key that is not
   registered gets the next id *)
RECURSIVE AssignRing(_, _, _, _)
AssignRing(ring, i, ids, reg) ==
  Bind(reg, LAMBDA r :
    IF i > Len(ring) - 1 THEN [point_ids |-> ids, reg |-> r]
    ELSE Bind(<<VertexKey(ring[i]), ids>>, LAMBDA v :
           IF v[1] \in DOMAIN r.id_map
           THEN AssignRing(ring, i + 1, Append(v[2], r.id_map[v[1]]), r)
           ELSE AssignRing(ring, i + 1, Append(v[2], r.gid),
                  [id_map |-> MapPut(r.id_map, v[1], r.gid),
                   id_to_point |-> Append(r.id_to_point, v[1]),
                   gid |-> r.gid + 1])))

RECURSIVE AssignItems(_, _, _, _)
AssignItems(polys, n, done, reg) ==
  IF n > Len(polys) THEN [polys |-> done, id_to_point |-> reg.id_to_point]
  ELSE Bind(<<AssignRing(polys[n].ring, 1, <<>>, reg), done>>, LAMBDA v :
         AssignItems(polys, n + 1,
           Append(v[2], [polys[n] EXCEPT !.point_ids = v[1].point_ids]), v[1].reg))

(* [polys, id_to_point] *)
assign_global_vertex_numbers(polys0) ==
  Bind([n \in 1..Len(polys0) |-> [polys0[n] EXCEPT !.ring = ring_coords(polys0[n].polygon)]],
       LAMBDA polys :
  Bind(Flatten([n \in 1..Len(polys) |-> SubSeq(polys[n].ring, 1, Len(polys[n].ring) - 1)]),
       LAMBDA all_pts :
  Bind(unique_points_by_decimals(all_pts), LAMBDA uniq_points :
  Bind(RegisterUnique(uniq_points, 1, [id_map |-> <<>>, id_to_point |-> <<>>, gid |-> 1]),
       LAMBDA reg : AssignItems(polys, 1, <<>>, reg)))))

----------------------------------------------------------------------------
(* DXF distance labels: MainWindow._export_unique_edge_distance_texts *)
DXF_TEXT_HEIGHT_MIN == Metre \div 10
DXF_POINT_RADIUS == (12 * Metre) \div 100

(* line 3227: base_text_h for a grid step, with _dxf_text_h at its minimum *)
BaseTextHeight(grid_step) == Max2(DXF_TEXT_HEIGHT_MIN, (3 * grid_step) \div 100)

(* math.hypot of an axis-parallel edge *)
EdgeLength(a, b) == Abs(b[1] - a[1]) + Abs(b[2] - a[2])

(* f"{L:.2f}": the length in centimetres *)
Centimetres(L) == RoundHalfEven(L * 100, Metre)

RECURSIVE Digits(_)
Digits(n) == IF n < 10 THEN 1 ELSE 1 + Digits(n \div 10)

(* a label is [ida, idb, cm]; ida = idb = 0 stands for the label without ids.
   len(text) of f"{ida}:{idb}={L:.2f}" and of f"{L:.2f}" *)
LabelLength(label) ==
  (IF label.ida = 0 THEN 0 ELSE Digits(label.ida) + Digits(label.idb) + 2)
  + Digits(label.cm \div 100) + 3

(* lines 3453-3467, in half units: the box <<x1, y1, x2, y2>> around a text
   centred at (cx2 / 2, cy2 / 2) *)
overlaps(a, b) == ~(a[3] < b[1] \/ b[3] < a[1] \/ a[4] < b[2] \/ b[4] < a[2])

bbox(cx2, cy2, n, th) ==
  LET char_w == (3 * th) \div 5
      pad == (3 * th) \div 5
      w == Max2(n * char_w, char_w * 2)
  IN <<cx2 - w - 2 * pad, cy2 - th - 2 * pad, cx2 + w + 2 * pad, cy2 + th + 2 * pad>>

Sign(v) == IF v > 0 THEN 1 ELSE IF v < 0 THEN -1 ELSE 0

(* lines 3471-3485: the candidate centres, in half units, around the edge
   midpoint (mx2 / 2, my2 / 2) with unit normal (nx, ny) *)
Trials(mx2, my2, nx, ny) ==
  LET R == 2 * DXF_POINT_RADIUS
      tx == ny
      ty == -nx
  IN <<<<mx2 + (nx * 3 * R) \div 2, my2 + (ny * 3 * R) \div 2>>,
       <<mx2 - (nx * 3 * R) \div 2, my2 - (ny * 3 * R) \div 2>>,
       <<mx2 + nx * 3 * R, my2 + ny * 3 * R>>,
       <<mx2 - nx * 3 * R, my2 - ny * 3 * R>>,
       <<mx2 + (nx * 9 * R) \div 2, my2 + (ny * 9 * R) \div 2>>,
       <<mx2 - (nx * 9 * R) \div 2, my2 - (ny * 9 * R) \div 2>>,
       <<mx2 + tx * R, my2 + ty * R>>,
       <<mx2 - tx * R, my2 - ty * R>>,
       <<mx2 + nx * 6 * R, my2 + ny * 6 * R>>,
       <<mx2 - nx * 6 * R, my2 - ny * 6 * R>>>>

(* lines 3469-3523: the first candidate whose box overlaps no placed box gets
   the text; without one nothing is placed *)
place(st, label, mx2, my2, nx, ny, th) ==
  LET trials == Trials(mx2, my2, nx, ny)
      Box2(t) == bbox(trials[t][1], trials[t][2], LabelLength(label), th)
      free == {t \in 1..Len(trials) :
                 \A q \in 1..Len(st.placed) : ~overlaps(Box2(t), st.placed[q])}
  IN IF free = {} THEN st
     ELSE LET t == CHOOSE u \in free : \A w \in free : u <= w
          IN [st EXCEPT !.placed = Append(st.placed, Box2(t)),
                        !.out = Append(st.out, label)]

(* ExportEdge without the set of pairs seen *)
ExportEdge_NoSeen(st, it, i, th) ==
  LET ring == ring_coords(it.polygon)
      n == Len(ring) - 1
      a == ring[i]
      b == ring[(i % n) + 1]
      L == EdgeLength(a, b)
      has_ids == it.point_ids # <<>> /\ i <= Len(it.point_ids)
  IN IF L < 3 * th THEN st
     ELSE place(st,
                IF has_ids
                THEN [ida |-> it.point_ids[i], idb |-> it.point_ids[(i % n) + 1],
                      cm |-> Centimetres(L)]
                ELSE [ida |-> 0, idb |-> 0, cm |-> Centimetres(L)],
                a[1] + b[1], a[2] + b[2], -Sign(b[2] - a[2]), Sign(b[1] - a[1]), th)

(* ExportEdge with the ordered id pair as key *)
ExportEdge_OrderedKey(st, it, i, th) ==
  LET ring == ring_coords(it.polygon)
      n == Len(ring) - 1
      a == ring[i]
      b == ring[(i % n) + 1]
      L == EdgeLength(a, b)
      has_ids == it.point_ids # <<>> /\ i <= Len(it.point_ids)
      ida == it.point_ids[i]
      idb == it.point_ids[(i % n) + 1]
      key == <<ida, idb>>
  IN IF L < 3 * th THEN st
     ELSE IF has_ids /\ key \in st.seen THEN st
     ELSE place(IF has_ids THEN [st EXCEPT !.seen = st.seen \cup {key}] ELSE st,
                IF has_ids THEN [ida |-> ida, idb |-> idb, cm |-> Centimetres(L)]
                ELSE [ida |-> 0, idb |-> 0, cm |-> Centimetres(L)],
                a[1] + b[1], a[2] + b[2], -Sign(b[2] - a[2]), Sign(b[1] - a[1]), th)

(* lines 3535-3571: edge i (1-based) of item it *)
ExportEdge(st, it, i, th) ==
  LET ring == ring_coords(it.polygon)
      n == Len(ring) - 1
      a == ring[i]
      b == ring[(i % n) + 1]
      dx == b[1] - a[1]
      dy == b[2] - a[2]
      L == EdgeLength(a, b)
      has_ids == it.point_ids # <<>> /\ i <= Len(it.point_ids)
      ida == it.point_ids[i]
      idb == it.point_ids[(i % n) + 1]
      key == <<Min2(ida, idb), Max2(ida, idb)>>
  IN IF L < 3 * th THEN st
     ELSE IF has_ids /\ key \in st.seen THEN st
     ELSE place(IF has_ids THEN [st EXCEPT !.seen = st.seen \cup {key}] ELSE st,
                IF has_ids THEN [ida |-> ida, idb |-> idb, cm |-> Centimetres(L)]
                ELSE [ida |-> 0, idb |-> 0, cm |-> Centimetres(L)],
                a[1] + b[1], a[2] + b[2], -Sign(dy), Sign(dx), th)

RECURSIVE ExportEdges(_, _, _, _)
ExportEdges(st, it, i, th) ==
  Bind(st, LAMBDA s :
    IF i > Len(ring_coords(it.polygon)) - 1 THEN s
    ELSE ExportEdges(ExportEdge(s, it, i, th), it, i + 1, th))

RECURSIVE ExportItems(_, _, _, _)
ExportItems(st, its, k, th) ==
  Bind(st, LAMBDA s :
    IF k > Len(its) THEN s
    ELSE ExportItems(ExportEdges(s, its[k], 1, th), its, k + 1, th))

(* _export_all_tables_as_grids, lines 4123-4145: the tokens of one item's
   table, one per consecutive id pair, as [ida, idb, cm] *)
distance_tokens_for_item(it, table) ==
  IF it.point_ids = <<>> \/ table = <<>> THEN <<>>
  ELSE LET ids == it.point_ids
           n == Len(ids)
       IN [i \in 1..n |->
            [ida |-> ids[i], idb |-> ids[(i % n) + 1],
             cm |-> Centimetres(EdgeLength(table[ids[i]], table[ids[(i % n) + 1]]))]]

(* lines 1033-1051: the pairs of the on-screen table row of one id list *)
edge_pairs_list(ids, table) ==
  IF Len(ids) < 2 THEN <<>>
  ELSE [i \in 1..Len(ids) |->
         [ida |-> ids[i], idb |-> ids[(i % Len(ids)) + 1],
          cm |-> Centimetres(EdgeLength(table[ids[i]], table[ids[(i % Len(ids)) + 1]]))]]

(* the labels placed, in order *)
_export_unique_edge_distance_texts(its, th) ==
  ExportItems([seen |-> {}, placed |-> <<>>, out |-> <<>>], its, 1, th).out

----------------------------------------------------------------------------
(* Input polygons *)
BoxRing(x1, y1, x2, y2) == <<<<x1, y1>>, <<x2, y1>>, <<x2, y2>>, <<x1, y2>>, <<x1, y1>>>>
Box(x1, y1, x2, y2) == Polygon(BoxRing(x1, y1, x2, y2))

(* Scenario B: a 10 m square and the same square shifted by 2 m *)
ScenarioSquare == Box(0, 0, 10 * Metre, 10 * Metre)
ScenarioShifted == Box(2 * Metre, 0, 12 * Metre, 10 * Metre)

(* the polygons the algebra is driven with: the two squares of Scenario B; a
   strip that sticks out of the square by a sliver of 2 square units (below
   TOL_AREA); a small block inside the square, drawn clockwise from its top
   right corner, that touches the strip along an edge and is disjoint from
   the shifted square *)
AlgebraShapes ==
  <<ScenarioSquare, ScenarioShifted, Box(-1, 0, 10 * Metre, 2),
    Polygon(<<<<4, 4>>, <<4, 2>>, <<1, 2>>, <<1, 4>>, <<4, 4>>>>)>>

(* lists over the shapes; Initial is drawn in catalogue order with repetition
   (each initial is processed on its own); Base and Final are drawn in
   catalogue order without repetition (unary_union ignores order and
   multiplicity) *)
ListsOf(shapes, n) ==
  {[i \in 1..Len(s) |-> shapes[s[i]]] : s \in SeqsUpTo(1..Len(shapes), n)}
MultiListsOf(shapes, n) ==
  {[i \in 1..Len(s) |-> shapes[s[i]]] :
     s \in {t \in SeqsUpTo(1..Len(shapes), n) : \A i \in 1..(Len(t) - 1) : t[i] <= t[i + 1]}}
SubListsOf(shapes, n) ==
  {[i \in 1..Len(s) |-> shapes[s[i]]] :
     s \in {t \in SeqsUpTo(1..Len(shapes), n) : \A i \in 1..(Len(t) - 1) : t[i] < t[i + 1]}}

----------------------------------------------------------------------------
(* Driver of the polygon algebra: arbitrary inputs, then compute, then check *)
NoResults ==
  /\ claimed_parts = <<>> /\ removed_parts = <<>> /\ initial_minus_d = <<>>
  /\ base_u = None /\ final_u = None
  /\ ok = FALSE /\ adiff = 0

NoItems == items = <<>> /\ prev_items = <<>> /\ id_to_point = <<>>

NoExport == text_h = DXF_TEXT_HEIGHT_MIN /\ dist_texts = <<>> /\ table_tokens = <<>>

InitAlgebra ==
  /\ pc = "loaded"
  /\ initials \in MultiListsOf(AlgebraShapes, MaxInitial)
  /\ bases \in SubListsOf(AlgebraShapes, MaxBase)
  /\ finals \in SubListsOf(AlgebraShapes, MaxFinal)
  /\ NoResults
  /\ NoItems
  /\ NoExport
  /\ unit = SnapStep
  /\ dlg = NoDialog

(* on_compute, lines 2679-2687: the call of compute_claimed_and_removed *)
RunCompute ==
  /\ pc = "loaded"
  /\ LET r == compute_claimed_and_removed(initials, bases, finals)
     IN /\ claimed_parts' = r.claimed_parts
        /\ removed_parts' = r.removed_parts
        /\ initial_minus_d' = r.initial_minus_d
        /\ base_u' = r.base_u
        /\ final_u' = r.final_u
  /\ pc' = "computed"
  /\ UNCHANGED <<initials, bases, finals, ok, adiff, items, prev_items, id_to_point,
                 text_h, dist_texts, table_tokens, unit, dlg>>

(* on_compute, lines 2751-2761: the call of algebraic_check on the items built from the parts *)
RunCheck ==
  /\ pc = "computed"
  /\ LET r == algebraic_check(base_u, final_u, removed_parts,
                              [k \in 1..Len(claimed_parts) |-> <<0, claimed_parts[k][2]>>])
     IN ok' = r[1] /\ adiff' = r[2]
  /\ pc' = "checked"
  /\ UNCHANGED <<initials, bases, finals, claimed_parts, removed_parts, initial_minus_d,
                 base_u, final_u, items, prev_items, id_to_point, text_h, dist_texts, table_tokens, unit, dlg>>

NextAlgebra == RunCompute \/ RunCheck

SpecAlgebra == InitAlgebra /\ [][NextAlgebra]_vars


(* algebraic_check on arbitrary arguments: unions that are absent or built
   from catalogue shapes, removed parts and indexed claimed parts that need
   not come from compute_claimed_and_removed; ok and adiff start with the
   outcome of an earlier check *)
UnionsOf(n) ==
  {None} \cup {Some(unary_union(l)) : l \in (SubListsOf(AlgebraShapes, n) \ {<<>>})}

InitCheck ==
  /\ pc = "args"
  /\ base_u \in UnionsOf(MaxBase)
  /\ final_u \in UnionsOf(MaxFinal)
  /\ removed_parts \in SubListsOf(AlgebraShapes, MaxBase)
  /\ claimed_parts \in {[k \in 1..Len(l) |-> <<k, l[k]>>] : l \in SubListsOf(AlgebraShapes, MaxInitial)}
  /\ ok \in BOOLEAN
  /\ adiff = IF ok THEN 0 ELSE SqMetre
  /\ initials = <<>> /\ bases = <<>> /\ finals = <<>> /\ initial_minus_d = <<>>
  /\ NoItems
  /\ NoExport
  /\ unit = SnapStep
  /\ dlg = NoDialog

ApplyCheck ==
  /\ pc = "args"
  /\ \E r \in {algebraic_check(base_u, final_u, removed_parts, claimed_parts)} :
       ok' = r[1] /\ adiff' = r[2]
  /\ pc' = "applied"
  /\ UNCHANGED <<initials, bases, finals, claimed_parts, removed_parts, initial_minus_d,
                 base_u, final_u, items, prev_items, id_to_point, text_h, dist_texts, table_tokens, unit, dlg>>

SpecCheck == InitCheck /\ [][ApplyCheck]_vars

(* on_compute once more on the same Initial, Base and Final: the second call
   of compute_claimed_and_removed *)
RunComputeAgain ==
  /\ pc = "computed"
  /\ \E r \in {compute_claimed_and_removed(initials, bases, finals)} :
       /\ claimed_parts' = r.claimed_parts
       /\ removed_parts' = r.removed_parts
       /\ initial_minus_d' = r.initial_minus_d
       /\ base_u' = r.base_u
       /\ final_u' = r.final_u
  /\ pc' = "recomputed"
  /\ UNCHANGED <<initials, bases, finals, ok, adiff, items, prev_items, id_to_point,
                 text_h, dist_texts, table_tokens, unit, dlg>>

NextRecompute == RunCompute \/ RunComputeAgain

SpecRecompute == InitAlgebra /\ [][NextRecompute]_vars

----------------------------------------------------------------------------
(* Driver of augmentation and numbering: an arbitrary item list, then
   augment_intersections, then assign_global_vertex_numbers, then a second
   numbering request on the numbered list *)
ReverseRing(r) == [i \in 1..Len(r) |-> r[Len(r) + 1 - i]]

(* Scenario A: two unit squares sharing the edge (1,0)-(1,1) *)
UnitSquareLeft == Polygon(<<<<0, 0>>, <<Metre, 0>>, <<Metre, Metre>>, <<0, Metre>>, <<0, 0>>>>)
UnitSquareRight ==
  Polygon(<<<<Metre, 0>>, <<2 * Metre, 0>>, <<2 * Metre, Metre>>, <<Metre, Metre>>, <<Metre, 0>>>>)

(* rings that share edges and sub-edges, cross, coincide, run clockwise, and
   have vertices 1 unit apart inside one rounding bucket (x = 0, 1), across a
   bucket boundary (x = 1, 2) and 2 units apart inside a bucket (x = 2, 4);
   the last two meet in a corner next to a bucket boundary, which the thin
   box passes twice within one bucket *)
NumberShapes ==
  <<Box(0, 0, 4, 4),
    Box(4, 1, Metre, 2),
    Box(2, 2, Metre, Metre),
    Box(1, 0, 4, 4),
    Box(2, 0, 4, 2),
    Polygon(ReverseRing(BoxRing(0, 0, 4, 4))),
    UnitSquareLeft,
    UnitSquareRight,
    Box(2 * Metre, 1, 2 * Metre + 10, 2),
    Box(2 * Metre + 10, 0, 2 * Metre + 12, 1)>>

RawItems(shapes) == [i \in 1..Len(shapes) |-> PolyItem("initial", i, make_valid(shapes[i]))]

InitNumber ==
  /\ pc = "raw"
  /\ items \in {RawItems(l) : l \in ListsOf(NumberShapes, MaxItems)}
  /\ prev_items = <<>>
  /\ id_to_point = <<>>
  /\ initials = <<>> /\ bases = <<>> /\ finals = <<>>
  /\ NoResults
  /\ NoExport
  /\ unit = SnapStep
  /\ dlg = NoDialog

(* augment_intersections applied to the raw list *)
ApplyAugment ==
  /\ pc = "raw"
  /\ prev_items' = items
  /\ items' = augment_intersections(items)
  /\ pc' = "augmented"
  /\ UNCHANGED <<initials, bases, finals, claimed_parts, removed_parts, initial_minus_d,
                 base_u, final_u, ok, adiff, id_to_point, text_h, dist_texts, table_tokens, unit, dlg>>

(* MainWindow.on_number, lines 2775-2809: nothing without items; else
   augmentation, then numbering, of the list as it stands.  An exception of
   either is caught and shown in a message box: the items keep what the
   augmentation did to them and id_to_point is not assigned *)
on_number ==
  IF items = <<>> THEN UNCHANGED vars
  ELSE /\ prev_items' = items
       /\ \E augmented \in {augment_intersections(items)} :
            IF Raised(augmented)
            THEN /\ items' = augmented
                 /\ id_to_point' = id_to_point
                 /\ pc' = "failed"
            ELSE \E r \in {assign_global_vertex_numbers(augmented)} :
                   /\ items' = r.polys
                   /\ id_to_point' = r.id_to_point
                   /\ pc' = IF pc \in {"raw", "augmented"} THEN "numbered" ELSE "renumbered"
       /\ UNCHANGED <<initials, bases, finals, claimed_parts, removed_parts, initial_minus_d,
                      base_u, final_u, ok, adiff, text_h, dist_texts, table_tokens, unit, dlg>>

NextNumber == ApplyAugment \/ on_number

(* the grid steps of the scales 1:10, 1:100 and 1:500 (SCALE_GRID_DEFAULTS) *)
GridSteps == {Metre, 10 * Metre, 50 * Metre}

(* MainWindow.export_dxf, lines 3225-3227 and 3357-3361: the distance labels
   and the per-item tables of the items as they stand *)
export_dxf ==
  /\ pc \in {"numbered", "renumbered"}
  /\ \E grid_step \in GridSteps :
       /\ text_h' = BaseTextHeight(grid_step)
       /\ \E r \in {_export_unique_edge_distance_texts(items, BaseTextHeight(grid_step))} :
            dist_texts' = r
  /\ table_tokens' = [k \in 1..Len(items) |-> distance_tokens_for_item(items[k], id_to_point)]
  /\ pc' = "exported"
  /\ UNCHANGED <<initials, bases, finals, claimed_parts, removed_parts, initial_minus_d,
                 base_u, final_u, ok, adiff, items, prev_items, id_to_point, unit, dlg>>

(* on_number on the raw list *)
NumberRaw == pc = "raw" /\ on_number

(* Drawings with features of a few micrometres: coordinates in 1/450 mm *)
FineUnit == 150 * SnapStep

(* a strip 13.36 mm long and 1/450 mm wide; squares of 6.67 mm and rectangles
   of up to 66.7 mm, three of them with their lower edge on the lower edge of
   the strip *)
FineShapes ==
  <<Box(0, 0, 6012, 1),
    Box(3000, 0, 6000, 3000),
    Box(0, 0, 3000, 3000),
    Box(0, 0, 6000, 3000),
    Box(3000, 0, 30000, 3000),
    Box(6000, 0, 30000, 30000),
    Box(6000, 3000, 30000, 30000)>>

InitFine ==
  /\ pc = "raw"
  /\ items \in {RawItems(l) : l \in ListsOf(FineShapes, MaxItems)}
  /\ prev_items = <<>>
  /\ id_to_point = <<>>
  /\ initials = <<>> /\ bases = <<>> /\ finals = <<>>
  /\ NoResults
  /\ NoExport
  /\ unit = FineUnit
  /\ dlg = NoDialog

SpecFine == InitFine /\ [][NumberRaw]_vars

NextExport == NumberRaw \/ export_dxf

SpecExport == InitNumber /\ [][NextExport]_vars

SpecNumber == InitNumber /\ [][NextNumber]_vars

----------------------------------------------------------------------------
(* MainWindow: load, compute and number requests in any order.

   items is self._all_items() (lines 4725-4741): items_initial + items_base +
   items_final + items_d + items_a + items_imd.  all_items_for_numbering is
   [] after the reset of on_load and that same list of the same objects after
   on_compute and on_number, so the target of on_number is items.
   Names are written in Latin letters: <<"Arch", i>> for "Αρχ-i", <<"B", i>>,
   <<"T", i>>, <<"D", k>> for "Δ-k", <<"A", k>> for "Α-k",
   <<"NEO KAEK", k>>, <<"T", 0>> for "Τ-?", <<"B", 0>> for "Β-?" and
   <<"Arch-D", i, c>> for "(Αρχ-i)-(Δ-c)". *)
DEFAULT_ROLE_LAYERS_MULTI ==
  [initial |-> <<"PST_KAEK">>,
   base |-> <<"PST_KAEK">>,
   final_out |-> <<"BOUND_IMPL", "TOPO_PROP", "DGM_PROP_FINAL">>,
   area_d |-> <<"AREA_D">>,
   area_a |-> <<"AREA_A">>,
   initial_minus_d |-> <<"BOUND_IMPL", "TOPO_PROP", "DGM_PROP_FINAL">>,
   points |-> <<"KORYFES">>,
   labels |-> <<"LABEL">>]

(* DEFAULT_ROLE_LAYERS_MULTI.get(key, []) *)
DefaultLayers(key) ==
  IF key \in DOMAIN DEFAULT_ROLE_LAYERS_MULTI THEN DEFAULT_ROLE_LAYERS_MULTI[key] ELSE <<>>

_init_poly_layers(it) ==
  IF it.layers = <<>>
  THEN [it EXCEPT !.layers = DefaultLayers(IF it.role = "final" THEN "final_out" ELSE it.role)]
  ELSE it

WithRole(its, role) == LET Has(it) == it.role = role IN SelectSeq(its, Has)
PolygonsOfItems(its) == [k \in 1..Len(its) |-> its[k].polygon]

items_initial == WithRole(items, "initial")
items_base == WithRole(items, "base")
items_final == WithRole(items, "final")
items_d == WithRole(items, "area_d")
items_a == WithRole(items, "area_a")
items_imd == WithRole(items, "initial_minus_d")

(* the three lists on_load builds from what load_from_dxf returned *)
LoadedItems(ini, bas, fin) ==
  [i \in 1..Len(ini) |-> _init_poly_layers(PolyItem("initial", <<"Arch", i>>, make_valid(ini[i])))]
  \o [i \in 1..Len(bas) |-> _init_poly_layers(PolyItem("base", <<"B", i>>, make_valid(bas[i])))]
  \o [i \in 1..Len(fin) |-> _init_poly_layers(PolyItem("final", <<"T", i>>, make_valid(fin[i])))]

(* ItemsD that names the Initial polygon by the number of the part *)
ItemsD_PartNumber(claimed, has_final) ==
  [k \in 1..Len(claimed) |->
     _init_poly_layers([PolyItem("area_d", <<"D", k>>, make_valid(claimed[k][2])) EXCEPT
                          !.from_kaek = <<"Arch", k>>,
                          !.to_kaek = IF has_final THEN <<"T", 1>> ELSE <<"T", 0>>,
                          !.characteristic = "D"])]

(* the lists on_compute builds from the results of compute_claimed_and_removed *)
ItemsD(claimed, has_final) ==
  [k \in 1..Len(claimed) |->
     _init_poly_layers([PolyItem("area_d", <<"D", k>>, make_valid(claimed[k][2])) EXCEPT
                          !.from_kaek = <<"Arch", claimed[k][1]>>,
                          !.to_kaek = IF has_final THEN <<"T", 1>> ELSE <<"T", 0>>,
                          !.characteristic = "D"])]

ItemsA(removed, has_base) ==
  [k \in 1..Len(removed) |->
     _init_poly_layers([PolyItem("area_a", <<"A", k>>, make_valid(removed[k])) EXCEPT
                          !.from_kaek = IF has_base THEN <<"B", 1>> ELSE <<"B", 0>>,
                          !.to_kaek = <<"NEO KAEK", k>>,
                          !.characteristic = "A"])]

(* counters[i_idx] when the k-th remainder is named *)
CounterAt(imd, k) == Cardinality({l \in 1..k : imd[l][1] = imd[k][1]})

ItemsIMD(imd) ==
  [k \in 1..Len(imd) |->
     _init_poly_layers(PolyItem("initial_minus_d",
                                <<"Arch-D", imd[k][1], CounterAt(imd, k)>>,
                                make_valid(imd[k][2])))]

(* on_compute as a function of the input items: the new _all_items(), the
   results of compute_claimed_and_removed and those of algebraic_check *)
Computation(inputs) ==
  Bind(compute_claimed_and_removed(PolygonsOfItems(WithRole(inputs, "initial")),
                                   PolygonsOfItems(WithRole(inputs, "base")),
                                   PolygonsOfItems(WithRole(inputs, "final"))),
       LAMBDA r :
  Bind(ItemsD(r.claimed_parts, WithRole(inputs, "final") # <<>>), LAMBDA d :
  Bind(ItemsA(r.removed_parts, WithRole(inputs, "base") # <<>>), LAMBDA a :
    [all |-> inputs \o d \o a \o ItemsIMD(r.initial_minus_d),
     r |-> r,
     check |-> algebraic_check(r.base_u, r.final_u, PolygonsOfItems(a),
                               [k \in 1..Len(d) |-> <<0, d[k].polygon>>])])))

(* Numbering that numbers the rings before it augments them *)
Numbering_AssignsFirst(target, table) ==
  IF target = <<>> THEN [all |-> target, id_to_point |-> table, outcome |-> "nothing"]
  ELSE Bind(assign_global_vertex_numbers(target), LAMBDA n :
         [all |-> augment_intersections(n.polys), id_to_point |-> n.id_to_point,
          outcome |-> "numbered"])

(* on_number as a function of its target and of the id table it may replace *)
Numbering(target, table) ==
  IF target = <<>> THEN [all |-> target, id_to_point |-> table, outcome |-> "nothing"]
  ELSE Bind(augment_intersections(target), LAMBDA augmented :
         IF Raised(augmented)
         THEN [all |-> augmented, id_to_point |-> table, outcome |-> "failed"]
         ELSE Bind(assign_global_vertex_numbers(augmented), LAMBDA n :
                [all |-> n.polys, id_to_point |-> n.id_to_point, outcome |-> "numbered"]))

(* on_compute that empties id_to_point *)
on_compute_EmptiesTable ==
  /\ prev_items' = items
  /\ \E c \in {Computation(items_initial \o items_base \o items_final)} :
       /\ items' = c.all
       /\ claimed_parts' = c.r.claimed_parts
       /\ removed_parts' = c.r.removed_parts
       /\ initial_minus_d' = c.r.initial_minus_d
       /\ base_u' = c.r.base_u
       /\ final_u' = c.r.final_u
       /\ ok' = c.check[1]
       /\ adiff' = c.check[2]
  /\ pc' = "computed"
  /\ id_to_point' = <<>>
  /\ UNCHANGED <<initials, bases, finals, text_h, dist_texts, table_tokens, unit, dlg>>

(* MainWindow.on_compute, lines 2677-2771: the input items as they stand,
   new derived items, id_to_point untouched *)
on_compute ==
  /\ prev_items' = items
  /\ \E c \in {Computation(items_initial \o items_base \o items_final)} :
       /\ items' = c.all
       /\ claimed_parts' = c.r.claimed_parts
       /\ removed_parts' = c.r.removed_parts
       /\ initial_minus_d' = c.r.initial_minus_d
       /\ base_u' = c.r.base_u
       /\ final_u' = c.r.final_u
       /\ ok' = c.check[1]
       /\ adiff' = c.check[2]
  /\ pc' = "computed"
  /\ UNCHANGED <<initials, bases, finals, id_to_point, text_h, dist_texts, table_tokens, unit, dlg>>

(* what load_from_dxf (lines 551-611) returns for the drawings of a small
   catalogue: the polygons of the Initial, Base and Final layers, three
   polygons at most in a drawing *)
WideBlock == Box(0, 0, 2 * Metre, Metre)

InitialChoices ==
  <<<<UnitSquareLeft>>,
    <<UnitSquareLeft, UnitSquareRight>>,
    <<UnitSquareRight>>,
    <<Box(2 * Metre, 1, 2 * Metre + 10, 2), Box(2 * Metre + 10, 0, 2 * Metre + 12, 1)>>>>
BaseChoices == <<<<>>, <<WideBlock>>, <<UnitSquareLeft>>>>
FinalChoices == <<<<>>, <<UnitSquareRight>>, <<UnitSquareLeft>>>>

MaxDrawings == 36

Drawing(n) ==
  <<InitialChoices[(n % 4) + 1], BaseChoices[((n \div 4) % 3) + 1],
    FinalChoices[((n \div 12) % 3) + 1]>>

Drawings ==
  {d \in {Drawing(n) : n \in 0..(MaxDrawings - 1)} : Len(d[1]) + Len(d[2]) + Len(d[3]) <= 3}

(* MainWindow.on_load, lines 2617-2673, with a file chosen and read: new input
   items, derived lists and id table reset, then on_compute and on_number
   (prev_items is the list on_number is called with).  Without a file, or
   with one that cannot be read, nothing changes. *)
on_load ==
  \E drawing \in Drawings :
    /\ initials' = drawing[1]
    /\ bases' = drawing[2]
    /\ finals' = drawing[3]
    /\ \E c \in {Computation(LoadedItems(drawing[1], drawing[2], drawing[3]))} :
         /\ claimed_parts' = c.r.claimed_parts
         /\ removed_parts' = c.r.removed_parts
         /\ initial_minus_d' = c.r.initial_minus_d
         /\ base_u' = c.r.base_u
         /\ final_u' = c.r.final_u
         /\ ok' = c.check[1]
         /\ adiff' = c.check[2]
         /\ prev_items' = c.all
         /\ \E n \in {Numbering(c.all, <<>>)} :
              /\ items' = n.all
              /\ id_to_point' = n.id_to_point
              /\ pc' = IF n.outcome = "nothing" THEN "computed" ELSE n.outcome
    /\ UNCHANGED <<text_h, dist_texts, table_tokens, unit, dlg>>

(* MainWindow.__init__, lines 1891-1905 *)
InitWindow ==
  /\ pc = "started"
  /\ items = <<>>
  /\ prev_items = <<>>
  /\ id_to_point = <<>>
  /\ initials = <<>> /\ bases = <<>> /\ finals = <<>>
  /\ NoResults
  /\ NoExport
  /\ unit = SnapStep
  /\ dlg = NoDialog

NextWindow == on_load \/ on_compute \/ on_number

SpecWindow == InitWindow /\ [][NextWindow]_vars

(* The layer names a polygon can be put on, lines 203-215 *)
PRIMARY_LAYERS ==
  <<"BOUND_IMPL", "BOUND_UNIMPL", "DBOUND_RYM", "DBOUND_AIG", "DBOUND_PRL", "DBOUND_PAIG",
    "DBOUND_REM", "DBOUND_APAL", "DBOUND_PROP", "ROAD", "OT", "PST_KAEK", "TOPO_PROP",
    "TOPO_PROP_NEW", "LINE_XM", "LINE_XM_VST", "VST_FINAL", "EAS_FINAL", "MINE_FINAL",
    "DGM_PROP_FINAL", "OBJ", "AREA_D", "AREA_A", "KORYFES", "LABEL", "TABLES", "GRID",
    "DIST-TEXT", "FRAME", "FRAME_BLUE">>

MANDATORY_LAYERS_BY_ROLE ==
  [initial |-> <<"PST_KAEK">>,
   base |-> <<"PST_KAEK">>,
   final |-> <<"BOUND_IMPL", "TOPO_PROP", "DGM_PROP_FINAL">>,
   initial_minus_d |-> <<"BOUND_IMPL", "TOPO_PROP", "DGM_PROP_FINAL">>,
   area_d |-> <<"AREA_D">>,
   area_a |-> <<"AREA_A">>]

(* MANDATORY_LAYERS_BY_ROLE.get(role, []) as a set, line 1257 *)
MandatoryLayers(role) ==
  IF role \in DOMAIN MANDATORY_LAYERS_BY_ROLE
  THEN {MANDATORY_LAYERS_BY_ROLE[role][n] : n \in 1..Len(MANDATORY_LAYERS_BY_ROLE[role])}
  ELSE {}

_role_key(r) == IF r = "final" THEN "final_out" ELSE r

(* `x in ls` and ls.remove(x) of a Python list *)
InList(x, ls) == \E n \in 1..Len(ls) : ls[n] = x
ListRemove(ls, x) ==
  LET first == CHOOSE n \in 1..Len(ls) : ls[n] = x /\ \A m \in 1..(n - 1) : ls[m] # x
  IN  [n \in 1..(Len(ls) - 1) |-> IF n < first THEN ls[n] ELSE ls[n + 1]]

(* the boxes on_poly_changed builds for a row, lines 1255-1277: one per
   primary layer, checked when the layer is in the row's list *)
ChecksOf(ls) == {PRIMARY_LAYERS[n] : n \in {m \in 1..Len(PRIMARY_LAYERS) : InList(PRIMARY_LAYERS[m], ls)}}

(* a handler that lets any layer be unchecked *)
handler_NoMandatory(d, role, state, layer_name) ==
  Bind(d.layers_by_poly[d.row + 1], LAMBDA ls :
    IF state = "Checked"
    THEN [d EXCEPT !.events = @ + 1,
                   !.checks = @ \cup {layer_name},
                   !.layers_by_poly[d.row + 1] =
                      IF InList(layer_name, ls) THEN ls ELSE Append(ls, layer_name)]
    ELSE [d EXCEPT !.events = @ + 1,
                   !.checks = @ \ {layer_name},
                   !.layers_by_poly[d.row + 1] =
                      IF InList(layer_name, ls) THEN ListRemove(ls, layer_name) ELSE ls])

(* the stateChanged handler of one box of the current row, lines 1283-1317,
   as a function of the dialog: the row's list, the boxes, the signals
   handled and the warnings shown *)
handler(d, role, state, layer_name) ==
  Bind(d.layers_by_poly[d.row + 1], LAMBDA ls :
    IF state = "Checked"
    THEN [d EXCEPT !.events = @ + 1,
                   !.checks = @ \cup {layer_name},
                   !.layers_by_poly[d.row + 1] =
                      IF InList(layer_name, ls) THEN ls ELSE Append(ls, layer_name)]
    ELSE IF layer_name \in MandatoryLayers(role)
    THEN [d EXCEPT !.events = @ + 1,
                   !.warnings = @ + 1,
                   !.checks = @ \cup {layer_name}]
    ELSE [d EXCEPT !.events = @ + 1,
                   !.checks = @ \ {layer_name},
                   !.layers_by_poly[d.row + 1] =
                      IF InList(layer_name, ls) THEN ListRemove(ls, layer_name) ELSE ls])

(* the boxes the user clicks, and how many clicks a behaviour has *)
ClickedLayers == {"PST_KAEK", "BOUND_IMPL", "AREA_D", "AREA_A", "ROAD"}
MaxClicks == 2

(* MainWindow.on_assign_layers, lines 2811-2827, up to the dialog's exec_:
   PolygonLayersDialog.__init__ (lines 1097-1191) over _all_items(), the
   first row selected; with no items a message and nothing else *)
on_assign_layers ==
  /\ ~dlg.open
  /\ items # <<>>
  /\ \E lbp \in {[k \in 1..Len(items) |->
                    IF items[k].layers # <<>> THEN items[k].layers
                    ELSE DefaultLayers(_role_key(items[k].role))]} :
       dlg' = [dlg EXCEPT !.open = TRUE, !.layers_by_poly = lbp, !.row = 0,
                          !.checks = ChecksOf(lbp[1])]
  /\ pc' = "layers"
  /\ UNCHANGED <<initials, bases, finals, claimed_parts, removed_parts, initial_minus_d,
                 base_u, final_u, ok, adiff, items, prev_items, id_to_point,
                 text_h, dist_texts, table_tokens, unit>>

(* PolygonLayersDialog.on_poly_changed, lines 1205-1323, when the user selects
   another row: the boxes are rebuilt from that row's list *)
on_poly_changed ==
  /\ dlg.open
  /\ \E row \in 0..(Len(items) - 1) :
       /\ row # dlg.row
       /\ dlg' = [dlg EXCEPT !.row = row, !.checks = ChecksOf(dlg.layers_by_poly[row + 1])]
  /\ UNCHANGED <<pc, initials, bases, finals, claimed_parts, removed_parts, initial_minus_d,
                 base_u, final_u, ok, adiff, items, prev_items, id_to_point,
                 text_h, dist_texts, table_tokens, unit>>

(* the user clicks a box of the current row: stateChanged with the box's new state *)
on_state_changed ==
  /\ dlg.open
  /\ dlg.events < MaxClicks
  /\ \E layer_name \in ClickedLayers :
       dlg' = handler(dlg, items[dlg.row + 1].role,
                      IF layer_name \in dlg.checks THEN "Unchecked" ELSE "Checked", layer_name)
  /\ UNCHANGED <<pc, initials, bases, finals, claimed_parts, removed_parts, initial_minus_d,
                 base_u, final_u, ok, adiff, items, prev_items, id_to_point,
                 text_h, dist_texts, table_tokens, unit>>

(* PolygonLayersDialog.accept, lines 1331-1347 *)
accept ==
  /\ dlg.open
  /\ items' = [k \in 1..Len(items) |->
                 IF dlg.layers_by_poly[k] = <<>>
                 THEN [items[k] EXCEPT !.layers = DefaultLayers(_role_key(items[k].role))]
                 ELSE [items[k] EXCEPT !.layers = dlg.layers_by_poly[k]]]
  /\ dlg' = [dlg EXCEPT !.open = FALSE, !.layers_by_poly = <<>>, !.row = 0, !.checks = {}]
  /\ pc' = "layers accepted"
  /\ UNCHANGED <<initials, bases, finals, claimed_parts, removed_parts, initial_minus_d,
                 base_u, final_u, ok, adiff, prev_items, id_to_point,
                 text_h, dist_texts, table_tokens, unit>>

(* Cancel: QDialog.reject, connected at line 1181; on_assign_layers does nothing more *)
reject ==
  /\ dlg.open
  /\ dlg' = [dlg EXCEPT !.open = FALSE, !.layers_by_poly = <<>>, !.row = 0, !.checks = {}]
  /\ pc' = "layers rejected"
  /\ UNCHANGED <<initials, bases, finals, claimed_parts, removed_parts, initial_minus_d,
                 base_u, final_u, ok, adiff, items, prev_items, id_to_point,
                 text_h, dist_texts, table_tokens, unit>>

(* The window after on_load of a drawing with items of every role: an Initial
   polygon inside the Base, claimed wholly or not at all by the Final *)
LayerDrawings == {Drawing(16), Drawing(18)}

InitLayers ==
  /\ unit = SnapStep
  /\ dlg = NoDialog
  /\ NoExport
  /\ \E drawing \in LayerDrawings :
       /\ initials = drawing[1]
       /\ bases = drawing[2]
       /\ finals = drawing[3]
       /\ \E c \in {Computation(LoadedItems(drawing[1], drawing[2], drawing[3]))} :
            /\ claimed_parts = c.r.claimed_parts
            /\ removed_parts = c.r.removed_parts
            /\ initial_minus_d = c.r.initial_minus_d
            /\ base_u = c.r.base_u
            /\ final_u = c.r.final_u
            /\ ok = c.check[1]
            /\ adiff = c.check[2]
            /\ prev_items = c.all
            /\ \E n \in {Numbering(c.all, <<>>)} :
                 /\ items = n.all
                 /\ id_to_point = n.id_to_point
                 /\ pc = IF n.outcome = "nothing" THEN "computed" ELSE n.outcome

NextLayers == on_assign_layers \/ on_poly_changed \/ on_state_changed \/ accept \/ reject

SpecLayers == InitLayers /\ [][NextLayers]_vars

(* Augmentation on its own, of rings that share edges and parts of edges,
   overlap, have a vertex in the middle of a straight side, and have a vertex
   that the drawing gives twice in a row *)
AugmentShapes ==
  <<Box(0, 0, 4, 4),
    Box(4, 1, Metre, 2),
    Box(1, 0, 4, 4),
    Box(2, 0, 4, 2),
    Polygon(<<<<0, 0>>, <<4, 0>>, <<4, 0>>, <<4, 4>>, <<0, 4>>, <<0, 0>>>>),
    Polygon(<<<<0, 0>>, <<2, 0>>, <<4, 0>>, <<4, 4>>, <<0, 4>>, <<0, 0>>>>),
    UnitSquareLeft,
    Box(2, 2, Metre, Metre)>>

InitAugment ==
  /\ pc = "raw"
  /\ items \in {RawItems(l) : l \in ListsOf(AugmentShapes, MaxItems)}
  /\ prev_items = <<>>
  /\ id_to_point = <<>>
  /\ initials = <<>> /\ bases = <<>> /\ finals = <<>>
  /\ NoResults
  /\ NoExport
  /\ unit = SnapStep
  /\ dlg = NoDialog

(* augment_intersections applied to a list it has been applied to *)
ApplyAugmentAgain ==
  /\ pc = "augmented"
  /\ prev_items' = items
  /\ items' = augment_intersections(items)
  /\ pc' = "augmented again"
  /\ UNCHANGED <<initials, bases, finals, claimed_parts, removed_parts, initial_minus_d,
                 base_u, final_u, ok, adiff, id_to_point, text_h, dist_texts, table_tokens, unit, dlg>>

NextAugment == ApplyAugment \/ ApplyAugmentAgain

SpecAugment == InitAugment /\ [][NextAugment]_vars

----------------------------------------------------------------------------
(* Properties of the polygon algebra (under SpecAlgebra) *)
Computed == pc \in {"computed", "checked"}

ClaimedOwn(i) == claimed_by_initial(claimed_parts, i)
RemainderOwn(i) ==
  LET Own(e) == e[1] = i
      own == SelectSeq(initial_minus_d, Own)
  IN [k \in 1..Len(own) |-> own[k][2]]

AreaOfParts(ps) == SeqSum([k \in 1..Len(ps) |-> area(ps[k])])

(* the part of the Final union covered neither by the Base union nor by a claimed part *)
UncoveredFinal ==
  UnionCells(finals) \ (UnionCells(bases) \cup UnionCells([k \in 1..Len(claimed_parts) |-> claimed_parts[k][2]]))

ScenarioB ==
  /\ initials = <<ScenarioSquare>>
  /\ bases = <<ScenarioSquare>>
  /\ finals = <<ScenarioShifted>>

(* C1 as stated: with Base and Final both non-empty, algebraic_check on the
   computed claimed and removed parts passes with residual <= 1e-6 *)
C1_CheckAlwaysPasses ==
  (pc = "checked" /\ bases # <<>> /\ finals # <<>>) => (ok /\ adiff <= TOL_AREA)

(* C1 amended: with Base and Final both non-empty, the residual reported by
   algebraic_check on the computed parts is the area of the part of the Final
   union covered neither by the Base union nor by a claimed part, and the
   check passes exactly when that residual is <= 1e-6 *)
C1_ResidualIsUncoveredFinal ==
  (pc = "checked" /\ bases # <<>> /\ finals # <<>>) =>
     /\ adiff = RegionArea(UncoveredFinal)
     /\ ok = (adiff <= TOL_AREA)

(* C1 witness: a check that passes although Final sticks out of Base by a sliver *)
C1_Witness ==
  /\ pc = "checked" /\ bases # <<>> /\ finals # <<>>
  /\ ok /\ adiff > 0 /\ claimed_parts # <<>> /\ removed_parts # <<>>

(* C2: for every Initial polygon i, the areas of its remainder parts and of
   its claimed parts add up to the area of Initial polygon i, whatever the
   Final collection is (an absent one included) *)
C2_AreaAdditivity ==
  Computed =>
    \A i \in 1..Len(initials) :
      AreaOfParts(RemainderOwn(i)) + AreaOfParts(ClaimedOwn(i)) = area(initials[i])

(* C2 witness: an Initial polygon split into a claimed part and a remainder part *)
C2_Witness ==
  /\ Computed
  /\ \E i \in 1..Len(initials) :
        /\ ClaimedOwn(i) # <<>> /\ RemainderOwn(i) # <<>>
        /\ AreaOfParts(ClaimedOwn(i)) < area(initials[i])

(* C3 as stated: in Scenario B the claimed parts have total area 0.0 *)
C3_ScenarioBClaimedIsZero ==
  (ScenarioB /\ Computed) => AreaOfParts(ClaimedOwn(1)) = 0

(* C3 amended: in Scenario B the claimed parts are the single 8 m x 10 m
   overlap of Initial and Final, of area 80.0, tagged with Initial index 1;
   no claimed part lies in the strip gained by Final *)
C3_ScenarioBClaimedIsOverlap ==
  (ScenarioB /\ Computed) =>
     /\ Len(claimed_parts) = 1
     /\ claimed_parts[1][1] = 1
     /\ claimed_parts[1][2].cells = ScenarioSquare.cells \cap ScenarioShifted.cells
     /\ AreaOfParts(ClaimedOwn(1)) = 80 * SqMetre

(* C3 witness: Scenario B has been computed *)
C3_Witness == ScenarioB /\ pc = "computed" /\ claimed_parts # <<>>

(* C4: in Scenario B the removed parts have total area 20.0 and
   algebraic_check reports fail with a residual of 20.0, the area of the
   strip gained by Final *)
C4_ScenarioBResidual ==
  (ScenarioB /\ pc = "checked") =>
     /\ AreaOfParts(removed_parts) = 20 * SqMetre
     /\ ~ok
     /\ adiff = 20 * SqMetre
     /\ adiff = RegionArea(ScenarioShifted.cells \ ScenarioSquare.cells)

(* C4 witness: Scenario B has been computed and checked *)
C4_Witness == ScenarioB /\ pc = "checked" /\ removed_parts # <<>> /\ adiff > TOL_AREA

(* C5: an Initial polygon of positive area without claimed parts has
   exactly one remainder part, the original polygon itself, tagged with the
   polygon's 1-based index *)
C5_UnclaimedPassesThrough ==
  Computed =>
    \A i \in 1..Len(initials) :
      (area(initials[i]) > 0 /\ ClaimedOwn(i) = <<>>) =>
         LET Own(e) == e[1] = i
         IN SelectSeq(initial_minus_d, Own) = <<<<i, initials[i]>>>>

(* C5 witness: with a Final present, the second Initial polygon is disjoint
   from the Final union and passes through, while the first one is claimed *)
C5_Witness ==
  /\ Computed /\ Len(initials) = 2 /\ finals # <<>>
  /\ ClaimedOwn(1) # <<>>
  /\ ClaimedOwn(2) = <<>>
  /\ initials[2].cells \cap UnionCells(finals) = {}
  /\ ~TouchOutsideCommonArea(initials[2].cells, UnionCells(finals))

(* the cells of the parts ps, and parts that are pairwise disjoint *)
CellsOfParts(ps) == UNION {ps[k].cells : k \in 1..Len(ps)}
DisjointParts(ps) == \A k, l \in 1..Len(ps) : k # l => ps[k].cells \cap ps[l].cells = {}

(* C26: the removed parts are the positive-area parts of base_union minus
   final_union when both Base and Final are non-empty, and none otherwise;
   without a Final there are no claimed parts either; every claimed, removed
   and remainder part has area > 0 *)
C26_RemovedNeedsBothUnions ==
  Computed =>
    /\ (bases # <<>> /\ finals # <<>>) =>
         /\ CellsOfParts(removed_parts) = UnionCells(bases) \ UnionCells(finals)
         /\ DisjointParts(removed_parts)
    /\ (bases = <<>> \/ finals = <<>>) => removed_parts = <<>>
    /\ finals = <<>> => claimed_parts = <<>>
    /\ \A k \in 1..Len(removed_parts) : area(removed_parts[k]) > 0
    /\ \A k \in 1..Len(claimed_parts) : area(claimed_parts[k][2]) > 0
    /\ \A k \in 1..Len(initial_minus_d) : area(initial_minus_d[k][2]) > 0

(* a Base that sticks out of the Final gave removed parts, next to claimed
   and remainder parts *)
C26_Witness ==
  /\ Computed /\ bases # <<>> /\ finals # <<>>
  /\ removed_parts # <<>> /\ claimed_parts # <<>> /\ initial_minus_d # <<>>

(* C14: a second run of compute_claimed_and_removed on the same Initial, Base
   and Final gives the claimed, removed and remainder collections of the
   first run: the same parts in the same order with the same Initial indices,
   and the same unions *)
C14_RecomputeGivesSameParts ==
  [][RunComputeAgain =>
       /\ claimed_parts' = claimed_parts
       /\ removed_parts' = removed_parts
       /\ initial_minus_d' = initial_minus_d
       /\ base_u' = base_u
       /\ final_u' = final_u]_vars

(* a second run that has produced claimed, removed and remainder parts *)
C14_Witness ==
  /\ pc = "recomputed"
  /\ claimed_parts # <<>> /\ removed_parts # <<>> /\ initial_minus_d # <<>>
  /\ Len(initials) = 2

----------------------------------------------------------------------------
(* Properties of algebraic_check on arbitrary arguments (under SpecCheck) *)
Applied == pc = "applied"

(* the cells of (base_union minus the removed parts) united with the claimed parts *)
ReconstructedCells ==
  ((IF base_u = None THEN {} ELSE base_u[1].area) \ UnionCells(removed_parts))
    \cup UnionCells([k \in 1..Len(claimed_parts) |-> claimed_parts[k][2]])

ResidualCells ==
  (ReconstructedCells \ final_u[1].area) \cup (final_u[1].area \ ReconstructedCells)

(* C15: with final_union absent algebraic_check returns fail and residual 0,
   whatever base_union, removed_parts and claimed_parts are *)
C15_AbsentFinalFailsWithZero ==
  (Applied /\ final_u = None) => (~ok /\ adiff = 0)

(* a check without Final union, with a Base union and claimed parts, after an
   earlier check that passed *)
C15_Witness ==
  /\ Applied /\ final_u = None
  /\ base_u # None /\ claimed_parts # <<>> /\ removed_parts # <<>>
  /\ ~ok

(* C16, as stated: with final_union present the residual is the area of the
   symmetric difference of the reconstruction and final_union, and the check
   passes exactly when the residual is <= 1e-6 *)
C16_PassIffResidualWithinTolerance ==
  (Applied /\ final_u # None) =>
    /\ adiff = RegionArea(ResidualCells)
    /\ ok <=> (adiff <= TOL_AREA)

(* C16, amended: with final_union present the residual is the area of the
   symmetric difference of the reconstruction and final_union; the check
   passes exactly when the residual is <= 1e-6 and there is a Base union or
   a claimed part to reconstruct from *)
C16_PassIffResidualWithinToleranceAndLeft ==
  (Applied /\ final_u # None) =>
    /\ adiff = RegionArea(ResidualCells)
    /\ ok <=> (adiff <= TOL_AREA /\ (base_u # None \/ claimed_parts # <<>>))

(* a check that passes with a positive residual, removed parts taken from the
   Base union and claimed parts added *)
C16_Witness ==
  /\ Applied /\ final_u # None /\ base_u # None
  /\ removed_parts # <<>> /\ claimed_parts # <<>>
  /\ base_u[1].area \cap UnionCells(removed_parts) # {}
  /\ ok /\ adiff > 0

(* C17, as stated: with final_union present, base_union absent and no claimed
   parts the residual is area(final_union) and the check passes exactly when
   the residual is <= 1e-6 *)
C17_EmptyReconstructionDecidedByTolerance ==
  (Applied /\ final_u # None /\ base_u = None /\ claimed_parts = <<>>) =>
    /\ adiff = RegionArea(final_u[1].area)
    /\ ok <=> (adiff <= TOL_AREA)

(* C17, amended: with final_union present, base_union absent and no claimed
   parts the residual is area(final_union) and the check fails, also when the
   residual is <= 1e-6 *)
C17_EmptyReconstructionFails ==
  (Applied /\ final_u # None /\ base_u = None /\ claimed_parts = <<>>) =>
    /\ adiff = RegionArea(final_u[1].area)
    /\ ~ok

(* a check without Base union and claimed parts against a Final union of an
   area within the tolerance, after an earlier check that passed *)
C17_Witness ==
  /\ Applied /\ final_u # None /\ base_u = None /\ claimed_parts = <<>>
  /\ adiff > 0 /\ adiff <= TOL_AREA
  /\ ~ok

----------------------------------------------------------------------------
(* Properties of augmentation and numbering (under SpecNumber) *)
Numbered == pc \in {"numbered", "renumbered"}

(* the closed ring of an item's polygon, and the ring without its closing point *)
RingOf(it) == ring_coords(it.polygon)
OpenRing(it) == SubSeq(RingOf(it), 1, Len(RingOf(it)) - 1)

(* <<item, position>> of every ring vertex that carries an id *)
VertexSlots == UNION {{<<k, n>> : n \in 1..Len(items[k].point_ids)} : k \in 1..Len(items)}
PointAt(s) == items[s[1]].ring[s[2]]
IdAt(s) == items[s[1]].point_ids[s[2]]

(* the ids an item gives to the point p *)
IdsOf(it, p) == {it.point_ids[n] : n \in {m \in 1..Len(it.point_ids) : it.ring[m] = p}}

(* the ends of the stretch, of positive length, that the axis-parallel
   segments (a, b) and (c, d) have in common *)
SharedEnds(a, b, c, d) ==
  IF a[2] = b[2] /\ c[2] = d[2] /\ a[2] = c[2]
  THEN LET lo == Max2(Min2(a[1], b[1]), Min2(c[1], d[1]))
           hi == Min2(Max2(a[1], b[1]), Max2(c[1], d[1]))
       IN IF lo < hi THEN {<<lo, a[2]>>, <<hi, a[2]>>} ELSE {}
  ELSE IF a[1] = b[1] /\ c[1] = d[1] /\ a[1] = c[1]
  THEN LET lo == Max2(Min2(a[2], b[2]), Min2(c[2], d[2]))
           hi == Min2(Max2(a[2], b[2]), Max2(c[2], d[2]))
       IN IF lo < hi THEN {<<a[1], lo>>, <<a[1], hi>>} ELSE {}
  ELSE {}

(* the ends of all stretches the rings of items i and j of the list its share *)
SharedEndsOf(its, i, j) ==
  UNION {SharedEnds(RingOf(its[i])[e], RingOf(its[i])[e + 1],
                    RingOf(its[j])[f], RingOf(its[j])[f + 1]) :
           <<e, f>> \in (1..(Len(RingOf(its[i])) - 1)) \X (1..(Len(RingOf(its[j])) - 1))}

RECURSIVE IsSubseq(_, _)
IsSubseq(small, big) ==
  IF small = <<>> THEN TRUE
  ELSE IF big = <<>> THEN FALSE
  ELSE IF Head(small) = Head(big) THEN IsSubseq(Tail(small), Tail(big))
  ELSE IsSubseq(small, Tail(big))

Rotate(r, n) == [i \in 1..Len(r) |-> r[((i + n - 1) % Len(r)) + 1]]

WithinTolerance(p, q) ==
  (p[1] - q[1]) * (p[1] - q[1]) + (p[2] - q[2]) * (p[2] - q[2]) <= SnapStep * SnapStep

(* C6: on_number on a list that is augmented and numbered changes no ring, no
   item's vertex ids and no entry of id_to_point *)
C6_RenumberChangesNothing ==
  [][(Numbered /\ on_number) =>
       /\ id_to_point' = id_to_point
       /\ Len(items') = Len(items)
       /\ \A k \in 1..Len(items) :
            /\ items'[k].ring = items[k].ring
            /\ items'[k].point_ids = items[k].point_ids]_vars

(* a second numbering has run on a numbered list whose rings share stretches *)
C6_Witness ==
  /\ pc = "renumbered"
  /\ \E i \in 1..Len(items) : \E j \in (1..Len(items)) \ {i} : SharedEndsOf(prev_items, i, j) # {}
  /\ Len(id_to_point) > 0

(* C7: after augmentation and numbering, both ends of every stretch that two
   rings share, before or after the augmentation, are vertices of both rings
   and carry one id in both items *)
C7_SharedEndsShareIds ==
  Numbered =>
    \A i \in 1..Len(items) : \A j \in (1..Len(items)) \ {i} :
      \A p \in SharedEndsOf(prev_items, i, j) \cup SharedEndsOf(items, i, j) :
        /\ IdsOf(items[i], p) # {}
        /\ IdsOf(items[i], p) = IdsOf(items[j], p)

(* numbered from the raw list, with an end of a shared stretch that was no
   vertex of one of the two raw rings *)
C7_Witness ==
  /\ pc = "numbered"
  /\ \E i \in 1..Len(items) : \E j \in (1..Len(items)) \ {i} :
       \E p \in SharedEndsOf(prev_items, i, j) :
         /\ \A n \in 1..Len(RingOf(prev_items[i])) : RingOf(prev_items[i])[n] # p
         /\ IdsOf(items[i], p) # {}

(* C8: the vertices of every ring before augment_intersections are vertices of
   the ring after it, in the same cyclic order *)
C8_InsertionOnly ==
  pc = "augmented" =>
    /\ Len(items) = Len(prev_items)
    /\ \A k \in 1..Len(items) :
         \E n \in 0..(Len(RingOf(items[k])) - 2) :
           IsSubseq(OpenRing(prev_items[k]), Rotate(OpenRing(items[k]), n))

(* augmentation has inserted a point into a ring *)
C8_Witness ==
  /\ pc = "augmented"
  /\ \E k \in 1..Len(items) : Len(RingOf(items[k])) > Len(RingOf(prev_items[k]))

(* C9: after assign_global_vertex_numbers two ring vertices carry the same id
   exactly when their coordinates round to the same key, and no two ids of
   id_to_point have coordinates that round to the same key *)
C9_SameIdIffSameKey ==
  Numbered =>
    /\ \A s \in VertexSlots : \A t \in VertexSlots :
         (IdAt(s) = IdAt(t)) <=> (BucketKey(PointAt(s)) = BucketKey(PointAt(t)))
    /\ \A a \in 1..Len(id_to_point) : \A b \in 1..Len(id_to_point) :
         a # b => BucketKey(id_to_point[a]) # BucketKey(id_to_point[b])

(* C10, as stated: two ring vertices within the rounding tolerance of each
   other always carry one id *)
C10_WithinToleranceOneId ==
  Numbered =>
    \A s \in VertexSlots : \A t \in VertexSlots :
      WithinTolerance(PointAt(s), PointAt(t)) => IdAt(s) = IdAt(t)

(* C10, amended: two ring vertices within the rounding tolerance of each other
   carry one id exactly when they round to the same key; a pair on the two
   sides of a bucket boundary carries two ids *)
C10_WithinToleranceOneIdIffOneBucket ==
  Numbered =>
    \A s \in VertexSlots : \A t \in VertexSlots :
      WithinTolerance(PointAt(s), PointAt(t)) =>
        ((IdAt(s) = IdAt(t)) <=> (BucketKey(PointAt(s)) = BucketKey(PointAt(t))))

(* numbered vertices 1 unit apart with one id, and 1 unit apart with two *)
C10_Witness ==
  /\ Numbered
  /\ \E s \in VertexSlots : \E t \in VertexSlots :
       /\ PointAt(s) # PointAt(t)
       /\ WithinTolerance(PointAt(s), PointAt(t))
       /\ IdAt(s) = IdAt(t)
  /\ \E s \in VertexSlots : \E t \in VertexSlots :
       /\ WithinTolerance(PointAt(s), PointAt(t))
       /\ IdAt(s) # IdAt(t)

(* the ids in the order of the scan: items in list order, ring vertices in
   ring order without the closing point; and the positions where an id is
   seen first *)
ScanIds == Flatten([k \in 1..Len(items) |-> items[k].point_ids])
FirstSeenAt == {n \in 1..Len(ScanIds) : \A m \in 1..(n - 1) : ScanIds[m] # ScanIds[n]}

(* C12: the ids are the consecutive integers 1..N, N the length of
   id_to_point, given to the distinct rounded keys in the order in which the
   scan sees them first, and entry k of id_to_point is the coordinate of the
   key that id k stands for *)
C12_ConsecutiveFirstSeenIds ==
  Numbered =>
    /\ Cardinality(FirstSeenAt) = Len(id_to_point)
    /\ \A n \in FirstSeenAt : ScanIds[n] = Cardinality({m \in FirstSeenAt : m <= n})
    /\ \A s \in VertexSlots : id_to_point[IdAt(s)] = BucketKey(PointAt(s))


(* C13: after assign_global_vertex_numbers the id list of every item has one
   id per vertex of its ring without the closing point, the k-th id being the
   id of the rounded key of the k-th vertex: its entry of id_to_point is that
   key, and vertices of one key carry one id *)
C13_IdsAlignedWithRing ==
  Numbered =>
    /\ \A k \in 1..Len(items) :
         /\ items[k].ring = RingOf(items[k])
         /\ Len(items[k].point_ids) = Len(items[k].ring) - 1
         /\ \A n \in 1..Len(items[k].point_ids) :
              /\ items[k].point_ids[n] \in 1..Len(id_to_point)
              /\ id_to_point[items[k].point_ids[n]] = VertexKey(items[k].ring[n])
    /\ \A s \in VertexSlots : \A t \in VertexSlots :
         VertexKey(PointAt(s)) = VertexKey(PointAt(t)) => IdAt(s) = IdAt(t)

(* numbered items, one of them with a ring that augmentation has lengthened *)
C13_Witness ==
  /\ Numbered
  /\ \E k \in 1..Len(items) :
       /\ Len(items[k].ring) > Len(RingOf(prev_items[k]))
       /\ Len(items[k].point_ids) = Len(items[k].ring) - 1

----------------------------------------------------------------------------
(* Properties of the DXF export (under SpecExport) *)
Exported == pc = "exported"

(* the two unit squares of Scenario A were numbered, in either order *)
ScenarioA ==
  /\ Len(prev_items) = 2
  /\ {prev_items[1].polygon, prev_items[2].polygon}
       = {make_valid(UnitSquareLeft), make_valid(UnitSquareRight)}

(* the ids the items give to the point p, and the labels of the id pair of p and q *)
GlobalIdsOf(p) == UNION {IdsOf(items[k], p) : k \in 1..Len(items)}
LabelsOfEdge(p, q) ==
  {n \in 1..Len(dist_texts) : {dist_texts[n].ida, dist_texts[n].idb} = GlobalIdsOf(p) \cup GlobalIdsOf(q)}

SharedEndsHaveOneId ==
  \A p \in {<<Metre, 0>>, <<Metre, Metre>>} :
    /\ Cardinality(GlobalIdsOf(p)) = 1
    /\ \A k \in 1..Len(items) : IdsOf(items[k], p) = GlobalIdsOf(p)

(* C11, as stated: in Scenario A each end of the shared edge has exactly one
   id and the shared edge has exactly one distance label in the export *)
C11_ScenarioASharedEdgeOnce ==
  (Exported /\ ScenarioA) =>
    /\ SharedEndsHaveOneId
    /\ Cardinality(LabelsOfEdge(<<Metre, 0>>, <<Metre, Metre>>)) = 1

(* C11, amended: each end of the shared edge has exactly one id; the shared
   edge has at most one distance label, of 1.00: one with the minimum text
   height, none when it is shorter than three text heights, as with the text
   height of the default grid step *)
C11_ScenarioASharedEdgeAtMostOnce ==
  (Exported /\ ScenarioA) =>
    /\ SharedEndsHaveOneId
    /\ Cardinality(LabelsOfEdge(<<Metre, 0>>, <<Metre, Metre>>)) <= 1
    /\ text_h = DXF_TEXT_HEIGHT_MIN => LabelsOfEdge(<<Metre, 0>>, <<Metre, Metre>>) # {}
    /\ 3 * text_h > Metre => LabelsOfEdge(<<Metre, 0>>, <<Metre, Metre>>) = {}
    /\ \A n \in LabelsOfEdge(<<Metre, 0>>, <<Metre, Metre>>) : dist_texts[n].cm = 100

(* Scenario A exported with the minimum text height, the shared edge labelled *)
C11_Witness ==
  /\ Exported /\ ScenarioA
  /\ text_h = DXF_TEXT_HEIGHT_MIN
  /\ LabelsOfEdge(<<Metre, 0>>, <<Metre, Metre>>) # {}

(* the unordered id pair of a label or token *)
PairOf(t) == {t.ida, t.idb}

(* the positions of item k's table tokens with the id pair P *)
TokensOf(k, P) == {i \in 1..Len(table_tokens[k]) : PairOf(table_tokens[k][i]) = P}

NoPairLabelledTwice ==
  \A m, n \in 1..Len(dist_texts) : PairOf(dist_texts[m]) = PairOf(dist_texts[n]) => m = n

(* C20, as stated: across the whole item collection an unordered id pair is
   reported once, in the distance labels and in the distance tokens of the
   item tables *)
C20_SharedEdgeReportedOnce ==
  Exported =>
    /\ NoPairLabelledTwice
    /\ \A k, l \in 1..Len(table_tokens) : \A i \in 1..Len(table_tokens[k]) :
         TokensOf(l, PairOf(table_tokens[k][i])) # {} => k = l

(* C20, amended: no unordered id pair has two distance labels in the drawing;
   the table of each item has one distance token per edge of the item, in ring
   order, whether or not another item has the same id pair *)
C20_SharedEdgeLabelledOnce ==
  Exported =>
    /\ NoPairLabelledTwice
    /\ \A k \in 1..Len(items) :
         /\ Len(table_tokens[k]) = Len(items[k].point_ids)
         /\ \A i \in 1..Len(table_tokens[k]) :
              /\ table_tokens[k][i].ida = items[k].point_ids[i]
              /\ table_tokens[k][i].idb
                   = items[k].point_ids[(i % Len(items[k].point_ids)) + 1]

(* an export where two items have an edge with the same two ids: the pair has
   one distance label and a token in the table of either item *)
C20_Witness ==
  /\ Exported
  /\ \E k, l \in 1..Len(items) : \E i \in 1..Len(table_tokens[k]) :
       /\ k # l
       /\ Cardinality(PairOf(table_tokens[k][i])) = 2
       /\ TokensOf(l, PairOf(table_tokens[k][i])) # {}
       /\ \E n \in 1..Len(dist_texts) : PairOf(dist_texts[n]) = PairOf(table_tokens[k][i])

----------------------------------------------------------------------------
(* Properties of a failing augmentation (under SpecFine) *)
(* C18: when the ring rebuilt for an item does not make a polygon, the
   augmentation of that item fails and the item keeps the polygon and the ring
   it had *)
C18_FailedItemKeepsPolygonAndRing ==
  [][pc' = "failed" =>
       /\ items'[RaisedAt(items')].polygon = items[RaisedAt(items')].polygon
       /\ items'[RaisedAt(items')].ring = items[RaisedAt(items')].ring]_vars

(* C19: when the augmentation fails part-way through on_number, the items
   processed before the failing one keep their polygons and vertex ids, and
   id_to_point is the table of the run before *)
C19_FailureKeepsEarlierItemsAndRegistry ==
  [][pc' = "failed" =>
       /\ \A l \in 1..(RaisedAt(items') - 1) :
            /\ items'[l].polygon = items[l].polygon
            /\ items'[l].point_ids = items[l].point_ids
       /\ id_to_point' = id_to_point]_vars

----------------------------------------------------------------------------
(* Properties of the main window (under SpecWindow) *)
CellsOfItems(its) == [k \in 1..Len(its) |-> its[k].polygon.cells]

(* role, name, region and provenance of the derived items of a list *)
Derived(its) == WithRole(its, "area_d") \o WithRole(its, "area_a") \o WithRole(its, "initial_minus_d")
Inputs(its) == WithRole(its, "initial") \o WithRole(its, "base") \o WithRole(its, "final")
Described(its) ==
  [k \in 1..Len(its) |->
     [role |-> its[k].role, name |-> its[k].name, cells |-> its[k].polygon.cells,
      from_kaek |-> its[k].from_kaek, to_kaek |-> its[k].to_kaek,
      characteristic |-> its[k].characteristic]]

(* every item of the list has its polygon's ring and one id per ring vertex *)
AllNumbered(its) ==
  \A k \in 1..Len(its) :
    /\ its[k].ring = ring_coords(its[k].polygon)
    /\ Len(its[k].point_ids) = Len(its[k].ring) - 1

(* C27: every claimed part is a positive-area part of Initial[i] intersected
   with the Final union, i its 1-based index; the item on_compute builds for
   it has from_kaek "Arch-i" for that i and the characteristic Delta; the
   removed parts and their items carry no Initial index *)
C27_ClaimedItemsNameTheirInitial ==
  /\ Len(items_d) = Len(claimed_parts)
  /\ \A k \in 1..Len(claimed_parts) :
       LET i == claimed_parts[k][1]
           p == claimed_parts[k][2]
       IN /\ i \in 1..Len(items_initial)
          /\ final_u # None
          /\ area(p) > 0
          /\ \E parts \in {multipoly_iter(intersection(Geom(items_initial[i].polygon),
                                                      final_u[1]))} :
               \E n \in 1..Len(parts) : parts[n].cells = p.cells
          /\ items_d[k].polygon.cells = p.cells
          /\ items_d[k].from_kaek = <<"Arch", i>>
          /\ items_d[k].from_kaek = items_initial[i].name
          /\ items_d[k].characteristic = "D"
  /\ Len(items_a) = Len(removed_parts)
  /\ \A k \in 1..Len(removed_parts) :
       /\ IsPolygon(removed_parts[k])
       /\ items_a[k].from_kaek[1] = "B"
       /\ items_a[k].characteristic = "A"

(* on_compute has built the item of a claimed part whose number is not the
   index of its Initial polygon *)
C27_Witness ==
  /\ pc = "computed"
  /\ \E k \in 1..Len(items_d) :
       /\ claimed_parts[k][1] # k
       /\ items_d[k].from_kaek = <<"Arch", claimed_parts[k][1]>>

(* C28: every id in the point_ids of every item is a 1-based index into
   id_to_point *)
C28_IdsIndexTheTable ==
  \A k \in 1..Len(items) : \A n \in 1..Len(items[k].point_ids) :
    items[k].point_ids[n] \in 1..Len(id_to_point)

(* a compute request after a numbering: items with ids next to new derived
   items, and the table of that numbering *)
C28_Witness ==
  /\ pc = "computed"
  /\ \E k \in 1..Len(items) : items[k].point_ids # <<>>
  /\ \E k \in 1..Len(items) : items[k].role = "area_d" /\ items[k].point_ids = <<>>
  /\ id_to_point # <<>>

(* C29: while id_to_point is not empty, every item of the collection, derived
   items included, has one vertex id per vertex of its ring *)
C29_TableImpliesEveryItemNumbered ==
  id_to_point # <<>> =>
    \A k \in 1..Len(items) : Len(items[k].point_ids) = Len(ring_coords(items[k].polygon)) - 1

(* C21: a numbering works on a list whose input items are the loaded
   polygons and whose derived items are those of on_compute over these
   inputs, and numbers the rings that the augmentation of the whole list has
   produced *)
C21_StagesInOrder ==
  Numbered =>
    /\ CellsOfItems(items_initial) = [k \in 1..Len(initials) |-> initials[k].cells]
    /\ CellsOfItems(items_base) = [k \in 1..Len(bases) |-> bases[k].cells]
    /\ CellsOfItems(items_final) = [k \in 1..Len(finals) |-> finals[k].cells]
    /\ Described(Derived(prev_items)) = Described(Derived(Computation(Inputs(prev_items)).all))
    /\ Described(items) = Described(prev_items)
    /\ AllNumbered(items)
    /\ PolygonsOfItems(augment_intersections(items)) = PolygonsOfItems(items)
    /\ PolygonsOfItems(items) = PolygonsOfItems(augment_intersections(prev_items))

(* numbered by on_load: derived items among the numbered ones, and a ring
   that the augmentation has given a point *)
C21_Witness ==
  /\ pc = "numbered"
  /\ items_d # <<>> /\ items_a # <<>>
  /\ \E k \in 1..Len(items) : Len(RingOf(items[k])) > Len(RingOf(prev_items[k]))

----------------------------------------------------------------------------
(* Properties of the augmentation (under SpecAugment) *)
(* the last step was an augmentation that got as far as rebuilding rings *)
Augmented == pc \in {"augmented", "augmented again"} /\ ~Raised(prev_items)

(* the rings the last augmentation started from *)
RingsBefore == RingsOf(prev_items)
EdgesOf(ring) == 1..(Len(ring) - 1)
PointsIn(seq) == {seq[n] : n \in 1..Len(seq)}

(* what _seg_intersection returned for edge e of item i and edge f of item j, i < j *)
Classified(rings, i, e, j, f) ==
  _seg_intersection(EdgeStart(rings[i], e), EdgeEnd(rings[i], e),
                    EdgeStart(rings[j], f), EdgeEnd(rings[j], f))

(* the start of edge e of item k followed by the insertions kept on it *)
EdgeRun(rings, k, e) ==
  AppendInsertions(<<EdgeStart(rings[k], e)>>,
                   SortedByProjection(InsertsOf(rings, k, e), EdgeStart(rings[k], e),
                                      EdgeEnd(rings[k], e)),
                   EdgeStart(rings[k], e), EdgeEnd(rings[k], e))

(* C22: the rebuilt ring is, edge by edge, the start of the edge and its
   insertions, and every inserted point differs from the point before it and
   from the point after it (the next insertion, or the end of the edge) *)
C22_InsertedPointsApartFromNeighbours ==
  Augmented =>
    \A k \in 1..Len(RingsBefore) :
      /\ RebuildFrom(RingsBefore, k, 1, <<>>)
           = Flatten([e \in 1..(Len(RingsBefore[k]) - 1) |-> EdgeRun(RingsBefore, k, e)])
      /\ \A e \in EdgesOf(RingsBefore[k]) :
           \E run \in {EdgeRun(RingsBefore, k, e)} :
             \A n \in 2..Len(run) :
               /\ run[n] # run[n - 1]
               /\ run[n] # (IF n = Len(run) THEN EdgeEnd(RingsBefore[k], e) ELSE run[n + 1])

(* points were inserted on an edge of no length and on an edge that ends in
   the middle of a straight side *)
C22_Witness ==
  /\ Augmented
  /\ \E k \in 1..Len(RingsBefore) : \E e \in EdgesOf(RingsBefore[k]) :
       /\ EdgeStart(RingsBefore[k], e) = EdgeEnd(RingsBefore[k], e)
       /\ Len(EdgeRun(RingsBefore, k, e)) > 1
  /\ \E k \in 1..Len(RingsBefore) : \E e \in EdgesOf(RingsBefore[k]) :
       /\ Len(EdgeRun(RingsBefore, k, e)) > 1
       /\ e > 1
       /\ _orient(EdgeStart(RingsBefore[k], e - 1)[1], EdgeStart(RingsBefore[k], e - 1)[2],
                  EdgeStart(RingsBefore[k], e)[1], EdgeStart(RingsBefore[k], e)[2],
                  EdgeEnd(RingsBefore[k], e)[1], EdgeEnd(RingsBefore[k], e)[2]) = 0

(* C23: every pair of distinct items is classified once, edge by edge; each
   point found is pending on the edge of both items it was found on; the
   points pending on an edge are exactly those found on it with the edges of
   the other items, each once *)
C23_PendingOnBothEdgesOnce ==
  Augmented =>
    /\ \A i, j \in 1..Len(RingsBefore) : i < j =>
         \A e \in EdgesOf(RingsBefore[i]) : \A f \in EdgesOf(RingsBefore[j]) :
           \A p \in PointsIn(ResultPoints(Classified(RingsBefore, i, e, j, f))) :
             /\ p \in PointsIn(InsertsOf(RingsBefore, i, e))
             /\ p \in PointsIn(InsertsOf(RingsBefore, j, f))
    /\ \A k \in 1..Len(RingsBefore) : \A e \in EdgesOf(RingsBefore[k]) :
         \E pending \in {InsertsOf(RingsBefore, k, e)} :
           /\ \A n, l \in 1..Len(pending) : n # l => pending[n] # pending[l]
           /\ \A n \in 1..Len(pending) :
                \E j \in (1..Len(RingsBefore)) \ {k} : \E f \in EdgesOf(RingsBefore[j]) :
                  pending[n] \in PointsIn(ResultPoints(
                    IF k < j THEN Classified(RingsBefore, k, e, j, f)
                    ELSE Classified(RingsBefore, j, f, k, e)))

(* a point that two edges of the other item give to one edge, and an overlap *)
C23_Witness ==
  /\ Augmented
  /\ Len(RingsBefore) = 2
  /\ \E e \in EdgesOf(RingsBefore[1]) : \E f, g \in EdgesOf(RingsBefore[2]) :
       /\ f # g
       /\ Classified(RingsBefore, 1, e, 2, f) # None
       /\ Classified(RingsBefore, 1, e, 2, g) # None
       /\ PointsIn(ResultPoints(Classified(RingsBefore, 1, e, 2, f)))
            \cap PointsIn(ResultPoints(Classified(RingsBefore, 1, e, 2, g))) # {}
  /\ \E e \in EdgesOf(RingsBefore[1]) : \E f \in EdgesOf(RingsBefore[2]) :
       Classified(RingsBefore, 1, e, 2, f) # None
       /\ Classified(RingsBefore, 1, e, 2, f)[1] = "OVERLAP"

(* the point p lies on the segment from a to b, a segment of no length being
   its one point *)
LiesOn(p, a, b) ==
  IF a = b THEN p = a
  ELSE /\ _orient(a[1], a[2], b[1], b[2], p[1], p[2]) = 0
       /\ Min2(a[1], b[1]) <= p[1] /\ p[1] <= Max2(a[1], b[1])
       /\ Min2(a[2], b[2]) <= p[2] /\ p[2] <= Max2(a[2], b[2])

(* the four ends lie on one line *)
OnOneLine(a, b, c, d) ==
  IF a # b THEN /\ _orient(a[1], a[2], b[1], b[2], c[1], c[2]) = 0
                /\ _orient(a[1], a[2], b[1], b[2], d[1], d[2]) = 0
  ELSE IF c # d THEN _orient(c[1], c[2], d[1], d[2], a[1], a[2]) = 0
  ELSE TRUE

(* the ends that lie on both segments, each once *)
CommonEnds(a, b, c, d) ==
  LET OnBoth(q) == LiesOn(q, a, b) /\ LiesOn(q, c, d)
  IN Dedup(SelectSeq(<<a, b, c, d>>, OnBoth), <<>>)

ByCommonEnds(a, b, c, d) ==
  LET ends == CommonEnds(a, b, c, d)
      lo == CHOOSE k \in 1..Len(ends) : \A l \in 1..Len(ends) : ~LexLess(ends[l], ends[k])
      hi == CHOOSE k \in 1..Len(ends) : \A l \in 1..Len(ends) : ~LexLess(ends[k], ends[l])
  IN IF ~OnOneLine(a, b, c, d) \/ ends = <<>> THEN None
     ELSE IF Len(ends) = 1 THEN <<"POINT", ends[1]>>
     ELSE <<"OVERLAP", ends[lo], ends[hi]>>

IsParallel(a, b, c, d) == (a[1] - b[1]) * (c[2] - d[2]) - (a[2] - b[2]) * (c[1] - d[1]) = 0

(* C24: for parallel edges _seg_intersection returns the overlap between the
   two extreme ends that lie on both edges, the point when one end does, and
   nothing when none does or the edges are on different lines *)
C24_ParallelEdgesByCommonEnds ==
  Augmented =>
    \A i, j \in 1..Len(RingsBefore) : i < j =>
      \A e \in EdgesOf(RingsBefore[i]) : \A f \in EdgesOf(RingsBefore[j]) :
        \E a \in {EdgeStart(RingsBefore[i], e)} : \E b \in {EdgeEnd(RingsBefore[i], e)} :
        \E c \in {EdgeStart(RingsBefore[j], f)} : \E d \in {EdgeEnd(RingsBefore[j], f)} :
          IsParallel(a, b, c, d) => _seg_intersection(a, b, c, d) = ByCommonEnds(a, b, c, d)

----------------------------------------------------------------------------
(* The two passes of assign_global_vertex_numbers (under SpecNumber) *)
(* the ring vertices the numbering scans, closing points left out *)
ScannedPoints == Flatten([k \in 1..Len(items) |-> SubSeq(items[k].ring, 1, Len(items[k].ring) - 1)])

(* the keys pass 1 registers: the rounded canonical points *)
RegisteredKeys ==
  {<<RoundTo(u[1], 1), RoundTo(u[2], 1)>> : u \in PointsIn(unique_points_by_decimals(ScannedPoints))}

(* C25: pass 2 finds the key of every vertex in the registry of pass 1;
   id_to_point has one entry for each distinct rounded key and no two equal
   entries, and every id is the id of some vertex *)
C25_PassTwoFindsEveryKey ==
  Numbered =>
    /\ \A n \in 1..Len(ScannedPoints) : VertexKey(ScannedPoints[n]) \in RegisteredKeys
    /\ Len(id_to_point) = Cardinality({VertexKey(ScannedPoints[n]) : n \in 1..Len(ScannedPoints)})
    /\ \A n, l \in 1..Len(id_to_point) : n # l => id_to_point[n] # id_to_point[l]
    /\ \A n \in 1..Len(id_to_point) : \E s \in VertexSlots : IdAt(s) = n

----------------------------------------------------------------------------
(* Properties of the layer dialog (under SpecLayers) *)
LayersOf(ls) == {ls[n] : n \in 1..Len(ls)}

(* C30: whatever boxes are checked and unchecked in the per-polygon layer
   dialog, and whether or not the dialog is then accepted, every item's layer
   list contains all the layers that are mandatory for its role; while the
   dialog is open the same is true of the list it keeps for each item, and
   the boxes of the current row show exactly that row's list, so that an
   unchecked mandatory layer has been re-checked and its list left alone *)
C30_MandatoryLayersKept ==
  /\ \A k \in 1..Len(items) : MandatoryLayers(items[k].role) \subseteq LayersOf(items[k].layers)
  /\ dlg.open =>
       /\ \A k \in 1..Len(items) :
            MandatoryLayers(items[k].role) \subseteq LayersOf(dlg.layers_by_poly[k])
       /\ dlg.checks = LayersOf(dlg.layers_by_poly[dlg.row + 1])

(* an accepted dialog in which unchecking a mandatory layer was refused and
   another layer was added to an item *)
C30_Witness ==
  /\ pc = "layers accepted"
  /\ dlg.warnings > 0
  /\ \E k \in 1..Len(items) :
       /\ MandatoryLayers(items[k].role) # {}
       /\ LayersOf(items[k].layers) # MandatoryLayers(items[k].role)

====
